---- MODULE Spec2Model ----
(***************************************************************************)
(* Othello match server (imhuog/huongcute).  The repository holds several  *)
(* generations of the same server:                                         *)
(*   A_ : src/unnamed/part_000   (rooms, spectators, reconnectAttempt)     *)
(*   B_ : src/unnamed/part_001   (automated opponent, stats, leaderboard)  *)
(*   S_ : src/server.js, first variant (lines 1-787)                       *)
(* Each generation is a state machine of its own (SpecA, SpecB, SpecS)     *)
(* over the same variables: the registry `rooms`, the socket map           *)
(* `playersMap`, the result ledger, the clock and the pending timers.      *)
(***************************************************************************)
EXTENDS Integers, Sequences, FiniteSets, TLC

VARIABLES
    rooms,       \* Map roomId -> GameRoom (a function on the ids in use)
    playersMap,  \* Map socket.id -> { roomId, playerName, ... } or NoInfo
    ledger,      \* calls made to the leaderboard / stats functions, in order
    now,         \* Date.now() in minutes, read at the last periodic sweep
    timers,      \* pending setTimeout callbacks
    reply,       \* last event emitted to the requesting socket
    dead         \* socket ids whose connection is closed

vars == <<rooms, playersMap, ledger, now, timers, reply, dead>>

(***************************************************************************)
(* Bounds                                                                  *)
(***************************************************************************)
MaxSweeps == 2       \* periodic sweeps modelled
MaxSpectators == 1   \* spectator entries per room
MaxLedger == 4       \* ledger calls after which no new match is started
MaxTimers == 2       \* pending timers
MaxPlies == 2        \* moves on the board after which the human of an AI match stops
MaxIdleSweeps == 7   \* periodic sweeps of the server of src/server.js
LineLen == 4         \* cells of the line of discs on the boards the move rules are tried on

Sockets == {"s1", "s2", "s3"}
\* the clients: a socket and the display name its user types; s3 is a new
\* connection of the user of s1 (or a stranger with the same name)
Clients == {<<"s1", "a">>, <<"s2", "b">>, <<"s3", "a">>}
\* the two clients of a match played to its end
Duel == {<<"s1", "a">>, <<"s2", "b">>}
RoomIds == {"R1"}
NoInfo == [none |-> TRUE]
NoReply == [to |-> "-", event |-> "-"]
null == -1

Opp(p) == IF p = 1 THEN 2 ELSE 1
OnBoard(r, c) == r \in 0..7 /\ c \in 0..7
Cells == (0..7) \X (0..7)
EmptyBoard == [r \in 0..7 |-> [c \in 0..7 |-> 0]]

\* board with every cell of the sequence `line` set to v
SetCells(b, line, v) ==
    [r \in 0..7 |-> [c \in 0..7 |->
        IF \E k \in 1..Len(line) : line[k] = <<r, c>> THEN v ELSE b[r][c]]]

CountOf(b, v) == Cardinality({x \in Cells : b[x[1]][x[2]] = v})

\* index of the first element of a sequence satisfying a test, 0 if none
FindIndex(seq, Test(_)) ==
    IF \E i \in 1..Len(seq) : Test(seq[i])
    THEN CHOOSE i \in 1..Len(seq) : Test(seq[i]) /\ \A j \in 1..(i-1) : ~Test(seq[j])
    ELSE 0

ConnectedCount(ps) == Cardinality({i \in 1..Len(ps) : ps[i].connected})
EveryDisconnected(ps) == \A i \in 1..Len(ps) : ~ps[i].connected

\* cells the human players may submit: a line of play that ends in a forced
\* pass (2,3 2,2 5,4 1,3 0,3 0,4 1,1 0,2) and one that ends the match
\* (2,3 2,2 5,4 3,5 2,6 1,3 0,3 3,2 3,1)
\* the opening cells the clients of the lobby submit
OpeningCells == {<<2,3>>, <<3,3>>}
MoveCells == {<<2,3>>, <<2,2>>, <<5,4>>, <<1,3>>, <<0,3>>, <<0,4>>, <<1,1>>, <<0,2>>,
              <<3,5>>, <<2,6>>, <<3,2>>, <<3,1>>}

(***************************************************************************)
(* A: src/unnamed/part_000 -- GameRoom                                     *)
(***************************************************************************)
A_directions == << <<-1,0>>, <<1,0>>, <<0,-1>>, <<0,1>>,
                   <<-1,-1>>, <<-1,1>>, <<1,-1>>, <<1,1>> >>

A_updateScores(b) == [i \in 1..2 |-> CountOf(b, i)]

\* initializeBoard as it would be with the colours of the four discs exchanged
A_initializeBoard_exchanged ==
    [EmptyBoard EXCEPT ![3][3] = 1, ![3][4] = 2, ![4][3] = 2, ![4][4] = 1]

A_initializeBoard ==
    [EmptyBoard EXCEPT ![3][3] = 2, ![3][4] = 1, ![4][3] = 1, ![4][4] = 2]

A_GameRoom(hostSocketId, hostName, t) ==
    [ board |-> A_initializeBoard,
      currentPlayer |-> 1,
      players |-> << [id |-> hostSocketId, name |-> hostName, color |-> 1,
                      connected |-> TRUE, isHost |-> TRUE] >>,
      spectators |-> << >>,
      gameStarted |-> FALSE,
      gameOver |-> FALSE,
      winner |-> null,
      scores |-> A_updateScores(A_initializeBoard),
      lastActivity |-> t,
      moveHistory |-> << >> ]

\* The handlers push entries to room.chatMessages and cut the array, none of
\* them reads an entry: the room holds the number of the entries, and only
\* where the specification is about the log.
A_GameRoomLogged(hostSocketId, hostName, t) ==
    A_GameRoom(hostSocketId, hostName, t) @@ [chatMessages |-> 0]

A_logged(rm) == "chatMessages" \in DOMAIN rm

\* the while loop of isValidMove along one ray
RECURSIVE A_rayValid(_, _, _, _, _, _, _)
A_rayValid(b, r, c, dr, dc, playerColor, foundOpponent) ==
    IF ~OnBoard(r, c) THEN FALSE
    ELSE IF b[r][c] = Opp(playerColor)
         THEN A_rayValid(b, r + dr, c + dc, dr, dc, playerColor, TRUE)
         ELSE b[r][c] = playerColor /\ foundOpponent

A_isValidMove(b, r, c, playerColor) ==
    /\ b[r][c] = 0
    /\ \E i \in 1..8 :
          A_rayValid(b, r + A_directions[i][1], c + A_directions[i][2],
                     A_directions[i][1], A_directions[i][2], playerColor, FALSE)

A_getValidMoves(b, playerColor) ==
    {x \in Cells : b[x[1]][x[2]] = 0 /\ A_isValidMove(b, x[1], x[2], playerColor)}

\* the while loop of makeMove along one ray: the cells it flips
RECURSIVE A_lineToFlip(_, _, _, _, _, _, _)
A_lineToFlip(b, r, c, dr, dc, playerColor, line) ==
    IF ~OnBoard(r, c) THEN << >>
    ELSE IF b[r][c] = Opp(playerColor)
         THEN A_lineToFlip(b, r + dr, c + dc, dr, dc, playerColor, Append(line, <<r, c>>))
         ELSE IF b[r][c] = playerColor THEN line ELSE << >>

\* the for loop of makeMove as it would be if the flipped discs were not
\* pushed to flippedPieces
RECURSIVE A_flipRays_unlisted(_, _, _, _, _, _)
A_flipRays_unlisted(b, r, c, playerColor, i, flippedPieces) ==
    IF i > 8 THEN [board |-> b, flippedPieces |-> flippedPieces]
    ELSE LET line == A_lineToFlip(b, r + A_directions[i][1], c + A_directions[i][2],
                                  A_directions[i][1], A_directions[i][2], playerColor, << >>)
         IN A_flipRays_unlisted(SetCells(b, line, playerColor), r, c, playerColor, i + 1,
                                flippedPieces)

\* the for loop of makeMove: rays are flipped in place, one after the other
RECURSIVE A_flipRays(_, _, _, _, _, _)
A_flipRays(b, r, c, playerColor, i, flippedPieces) ==
    IF i > 8 THEN [board |-> b, flippedPieces |-> flippedPieces]
    ELSE LET line == A_lineToFlip(b, r + A_directions[i][1], c + A_directions[i][2],
                                  A_directions[i][1], A_directions[i][2], playerColor, << >>)
         IN A_flipRays(SetCells(b, line, playerColor), r, c, playerColor, i + 1,
                       flippedPieces \o line)

\* GameRoom.makeMove: the room after the move and the result object
A_makeMove(rm, r, c, playerColor, t) ==
    IF ~A_isValidMove(rm.board, r, c, playerColor)
    THEN [room |-> rm, success |-> FALSE, flippedPieces |-> << >>]
    ELSE LET res == A_flipRays([rm.board EXCEPT ![r][c] = playerColor],
                               r, c, playerColor, 1, << >>)
         IN [room |-> [rm EXCEPT
                         !.board = res.board,
                         !.moveHistory = Append(@, [player |-> playerColor, r |-> r, c |-> c,
                                                    flippedPieces |-> res.flippedPieces]),
                         !.scores = A_updateScores(res.board),
                         !.lastActivity = t],
             success |-> TRUE,
             flippedPieces |-> res.flippedPieces]

A_switchPlayer(rm, t) ==
    [rm EXCEPT !.currentPlayer = Opp(@), !.lastActivity = t]

A_winnerByScores(rm) ==
    IF rm.scores[1] > rm.scores[2] THEN 1
    ELSE IF rm.scores[2] > rm.scores[1] THEN 2 ELSE 0

A_hasColor(rm, col) == \E i \in 1..Len(rm.players) : rm.players[i].color = col
A_findColor(rm, col) == rm.players[FindIndex(rm.players, LAMBDA p : p.color = col)]
A_rating(name, result) == [fn |-> "updateLeaderboardRating", name |-> name, result |-> result]
A_stats(name, result) == [fn |-> "updatePlayerStats", name |-> name, result |-> result]

\* handleGameResult: the ledger calls it makes; it throws (TypeError on
\* player1.name / player2.name) when the roster has two entries but no
\* entry of one colour
A_handleGameResult(rm) ==
    IF ~rm.gameOver \/ Len(rm.players) # 2 THEN [threw |-> FALSE, calls |-> << >>]
    ELSE IF rm.winner \notin {0, 1, 2} THEN [threw |-> FALSE, calls |-> << >>]
    ELSE IF rm.winner = 1 /\ ~A_hasColor(rm, 1) THEN [threw |-> TRUE, calls |-> << >>]
    ELSE IF rm.winner = 2 /\ ~A_hasColor(rm, 2) THEN [threw |-> TRUE, calls |-> << >>]
    ELSE IF rm.winner = 0 /\ ~A_hasColor(rm, 1) THEN [threw |-> TRUE, calls |-> << >>]
    ELSE
      LET n1 == A_findColor(rm, 1).name
      IN IF rm.winner = 1
         THEN IF ~A_hasColor(rm, 2)
              THEN [threw |-> TRUE, calls |-> << A_rating(n1, "win"), A_stats(n1, "win") >>]
              ELSE [threw |-> FALSE,
                    calls |-> << A_rating(n1, "win"), A_stats(n1, "win"),
                                 A_rating(A_findColor(rm, 2).name, "loss"),
                                 A_stats(A_findColor(rm, 2).name, "loss") >>]
         ELSE IF rm.winner = 2
         THEN IF ~A_hasColor(rm, 1)
              THEN [threw |-> TRUE, calls |-> << A_rating(A_findColor(rm, 2).name, "win"),
                                                 A_stats(A_findColor(rm, 2).name, "win") >>]
              ELSE [threw |-> FALSE,
                    calls |-> << A_rating(A_findColor(rm, 2).name, "win"),
                                 A_stats(A_findColor(rm, 2).name, "win"),
                                 A_rating(n1, "loss"), A_stats(n1, "loss") >>]
         ELSE IF ~A_hasColor(rm, 2)
              THEN [threw |-> TRUE, calls |-> << A_stats(n1, "tie") >>]
              ELSE [threw |-> FALSE,
                    calls |-> << A_stats(n1, "tie"), A_stats(A_findColor(rm, 2).name, "tie") >>]

\* checkGameEnd as it would be if it never found the match ended
A_checkGameEnd_never(rm, t) ==
    [room |-> rm, ret |-> FALSE, threw |-> FALSE, calls |-> << >>]

\* checkGameEnd, called by the makeMove handler before the turn is switched
A_checkGameEnd(rm, t) ==
    LET movesForBlack == Cardinality(A_getValidMoves(rm.board, 1))
        movesForWhite == Cardinality(A_getValidMoves(rm.board, 2))
        over(x) == [x EXCEPT !.gameOver = TRUE, !.winner = A_winnerByScores(x)]
        ended(x) == [room |-> over(x), ret |-> TRUE,
                     threw |-> A_handleGameResult(over(x)).threw,
                     calls |-> A_handleGameResult(over(x)).calls]
    IN IF movesForBlack = 0 /\ movesForWhite = 0 THEN ended(rm)
       ELSE IF Cardinality(A_getValidMoves(rm.board, rm.currentPlayer)) = 0
            THEN LET sw == A_switchPlayer(rm, t)
                 IN IF Cardinality(A_getValidMoves(sw.board, sw.currentPlayer)) = 0
                    THEN ended(sw)
                    ELSE [room |-> sw, ret |-> FALSE, threw |-> FALSE, calls |-> << >>]
            ELSE [room |-> rm, ret |-> FALSE, threw |-> FALSE, calls |-> << >>]

\* addPlayer as it would be without the branch for a player who comes back
A_addPlayer_alwaysNew(rm, socketId, playerName, t) ==
    IF Len(rm.players) < 2
    THEN [success |-> TRUE, reconnected |-> FALSE,
          room |-> [rm EXCEPT !.players = Append(@,
                                 [id |-> socketId, name |-> playerName, color |-> 2,
                                  connected |-> TRUE, isHost |-> FALSE]),
                              !.lastActivity = t]]
    ELSE [success |-> FALSE, reconnected |-> FALSE, room |-> rm]

A_addPlayer(rm, socketId, playerName, t) ==
    IF Len(rm.players) < 2
    THEN LET k == FindIndex(rm.players, LAMBDA p : p.name = playerName /\ ~p.connected)
         IN IF k # 0
            THEN [success |-> TRUE, reconnected |-> TRUE,
                  room |-> [rm EXCEPT !.players[k].id = socketId,
                                      !.players[k].connected = TRUE,
                                      !.lastActivity = t]]
            ELSE [success |-> TRUE, reconnected |-> FALSE,
                  room |-> [rm EXCEPT !.players = Append(@,
                                         [id |-> socketId, name |-> playerName, color |-> 2,
                                          connected |-> TRUE, isHost |-> FALSE]),
                                      !.lastActivity = t]]
    ELSE [success |-> FALSE, reconnected |-> FALSE, room |-> rm]

RemoveAt(seq, k) == SubSeq(seq, 1, k - 1) \o SubSeq(seq, k + 1, Len(seq))

A_removePlayer(rm, socketId, t) ==
    LET playerIndex == FindIndex(rm.players, LAMBDA p : p.id = socketId)
        spectatorIndex == FindIndex(rm.spectators, LAMBDA x : x.id = socketId)
    IN IF playerIndex # 0
       THEN [success |-> TRUE, player |-> TRUE,
             room |-> [rm EXCEPT !.players[playerIndex].connected = FALSE,
                                 !.lastActivity = t]]
       ELSE IF spectatorIndex # 0
       THEN [success |-> TRUE, player |-> FALSE,
             room |-> [rm EXCEPT !.spectators = RemoveAt(@, spectatorIndex),
                                 !.lastActivity = t]]
       ELSE [success |-> FALSE, player |-> FALSE, room |-> rm]

A_addSpectator(rm, socketId, spectatorName, t) ==
    [rm EXCEPT !.spectators = Append(@, [id |-> socketId, name |-> spectatorName]),
               !.lastActivity = t]

A_CHAT_LIMIT == 100

A_addChatMessage(rm) ==
    IF ~A_logged(rm) THEN rm
    ELSE LET length == rm.chatMessages + 1
         IN [rm EXCEPT !.chatMessages = IF length > A_CHAT_LIMIT
                                        THEN length - (length - A_CHAT_LIMIT)
                                        ELSE length]

A_addSystemMessage(rm) ==
    IF A_logged(rm) THEN [rm EXCEPT !.chatMessages = @ + 1] ELSE rm

A_startGame(rm, t) ==
    IF Len(rm.players) = 2 /\ ~rm.gameStarted
    THEN [ok |-> TRUE, room |-> [rm EXCEPT !.gameStarted = TRUE, !.lastActivity = t]]
    ELSE [ok |-> FALSE, room |-> rm]

\* getGameState: the snapshot of the room that is sent to the clients
A_getGameState(rm) ==
    [board |-> rm.board,
     currentPlayer |-> rm.currentPlayer,
     gameStarted |-> rm.gameStarted,
     gameOver |-> rm.gameOver,
     winner |-> rm.winner,
     scores |-> rm.scores,
     validMoves |-> IF rm.gameStarted /\ ~rm.gameOver
                    THEN A_getValidMoves(rm.board, rm.currentPlayer)
                    ELSE {}]

\* the boardUpdate event the makeMove handler sends to the room for the move
\* (r, c) it accepts in `room`: built right after room.makeMove returned
A_boardUpdate(room, r, c, t) ==
    LET moveResult == A_makeMove(room, r, c, room.currentPlayer, t)
    IN [gameState |-> A_getGameState(moveResult.room),
        lastMove |-> [r |-> r, c |-> c, player |-> moveResult.room.currentPlayer],
        flippedPieces |-> moveResult.flippedPieces]

(***************************************************************************)
(* A: src/unnamed/part_000 -- socket handlers and timers                   *)
(***************************************************************************)
SWEEP == 5                 \* minutes between two periodic sweeps
A_DISCONNECT_TIMEOUT == 5  \* minutes
A_INACTIVE_TIMEOUT == 30   \* minutes

Reply(s, ev) == [to |-> s, event |-> ev]
Info(id, name, host, spec) ==
    [roomId |-> id, playerName |-> name, isHost |-> host, isSpectator |-> spec]
HasInfo(s) == playersMap[s] # NoInfo
DropTimers(id) == SelectSeq(timers, LAMBDA x : x.roomId # id)
Without(f, id) == [k \in (DOMAIN f) \ {id} |-> f[k]]

\* A timer callback holds the room object, not its id.  Once the object has
\* left the registry (deleted, or replaced under the same id) no handler
\* reaches it any more: its players keep the flags they had, which `every`
\* records for the pending removal callbacks, and what its other pending
\* callbacks do to it is seen by nobody.
Orphan(ts, roomId, every) ==
    LET kept == SelectSeq(ts, LAMBDA x : x.roomId # roomId \/ "every" \in DOMAIN x)
    IN [k \in 1..Len(kept) |->
           IF kept[k].roomId = roomId /\ kept[k].every = "live"
           THEN [kept[k] EXCEPT !.every = every]
           ELSE kept[k]]

InitCommon ==
    /\ rooms = << >>
    /\ playersMap = [s \in Sockets |-> NoInfo]
    /\ ledger = << >>
    /\ now = 0
    /\ timers = << >>
    /\ reply = NoReply
    /\ dead = {}

\* generateRoomId: an id no room of the registry uses
A_generateRoomId == RoomIds \ DOMAIN rooms

A_createRoomWith(s, playerName, log) ==
    /\ s \notin dead
    /\ Len(ledger) < MaxLedger
    /\ \E roomId \in A_generateRoomId :
          /\ rooms' = (roomId :> (IF log THEN A_GameRoomLogged(s, playerName, now)
                                         ELSE A_GameRoom(s, playerName, now))) @@ rooms
          /\ playersMap' = [playersMap EXCEPT ![s] = Info(roomId, playerName, TRUE, FALSE)]
    /\ reply' = reply
    /\ UNCHANGED <<ledger, now, timers, dead>>

A_createRoom(s, playerName) == A_createRoomWith(s, playerName, FALSE)

\* socket.emit(event, ...): the event goes to the requesting socket and to no
\* other (io.to(roomId).emit and io.emit are the broadcasts)
A_emit(event) == [to |-> "socket", event |-> event]

\* joinRoom as it would be without the test of the display name
A_joinRoom_anyName(s, roomId, playerName) ==
    /\ s \notin dead
    /\ IF roomId \notin DOMAIN rooms
       THEN /\ reply' = A_emit("roomError")
            /\ UNCHANGED <<rooms, playersMap, ledger, now, timers, dead>>
       ELSE LET room == rooms[roomId]
                joinResult == A_addPlayer(room, s, playerName, now)
            IN IF \E i \in 1..Len(room.players) : room.players[i].id = s
               THEN /\ reply' = A_emit("roomError")
                    /\ UNCHANGED <<rooms, playersMap, ledger, now, timers, dead>>
               ELSE IF joinResult.success
               THEN /\ rooms' = [rooms EXCEPT ![roomId] = A_addSystemMessage(joinResult.room)]
                    /\ playersMap' = [playersMap EXCEPT
                                        ![s] = Info(roomId, playerName, FALSE, FALSE)]
                    /\ reply' = A_emit("roomJoined")
                    /\ timers' = IF ConnectedCount(joinResult.room.players) = 2
                                    /\ ~joinResult.room.gameStarted
                                 THEN Append(timers, [kind |-> "startGame", roomId |-> roomId])
                                 ELSE timers
                    /\ Len(timers') <= MaxTimers
                    /\ UNCHANGED <<ledger, now, dead>>
               ELSE IF Len(room.players) = 2
               THEN /\ Len(room.spectators) < MaxSpectators
                    /\ rooms' = [rooms EXCEPT ![roomId] =
                                    A_addSystemMessage(A_addSpectator(room, s, playerName, now))]
                    /\ playersMap' = [playersMap EXCEPT
                                        ![s] = Info(roomId, playerName, FALSE, TRUE)]
                    /\ reply' = A_emit("roomJoined")
                    /\ UNCHANGED <<ledger, now, timers, dead>>
               ELSE /\ reply' = A_emit("roomError")
                    /\ UNCHANGED <<rooms, playersMap, ledger, now, timers, dead>>

A_joinRoom(s, roomId, playerName) ==
    /\ s \notin dead
    /\ IF roomId \notin DOMAIN rooms
       THEN /\ reply' = A_emit("roomError")
            /\ UNCHANGED <<rooms, playersMap, ledger, now, timers, dead>>
       ELSE LET room == rooms[roomId]
                joinResult == A_addPlayer(room, s, playerName, now)
            IN IF \/ \E i \in 1..Len(room.players) : room.players[i].id = s
                  \/ \E i \in 1..Len(room.players) :
                        room.players[i].name = playerName /\ room.players[i].connected
               THEN /\ reply' = A_emit("roomError")
                    /\ UNCHANGED <<rooms, playersMap, ledger, now, timers, dead>>
               ELSE IF joinResult.success
               THEN /\ rooms' = [rooms EXCEPT ![roomId] = A_addSystemMessage(joinResult.room)]
                    /\ playersMap' = [playersMap EXCEPT
                                        ![s] = Info(roomId, playerName, FALSE, FALSE)]
                    /\ reply' = A_emit("roomJoined")
                    /\ timers' = IF ConnectedCount(joinResult.room.players) = 2
                                    /\ ~joinResult.room.gameStarted
                                 THEN Append(timers, [kind |-> "startGame", roomId |-> roomId])
                                 ELSE timers
                    /\ Len(timers') <= MaxTimers
                    /\ UNCHANGED <<ledger, now, dead>>
               ELSE IF Len(room.players) = 2
               THEN /\ Len(room.spectators) < MaxSpectators
                    /\ rooms' = [rooms EXCEPT ![roomId] =
                                    A_addSystemMessage(A_addSpectator(room, s, playerName, now))]
                    /\ playersMap' = [playersMap EXCEPT
                                        ![s] = Info(roomId, playerName, FALSE, TRUE)]
                    /\ reply' = A_emit("roomJoined")
                    /\ UNCHANGED <<ledger, now, timers, dead>>
               ELSE /\ reply' = A_emit("roomError")
                    /\ UNCHANGED <<rooms, playersMap, ledger, now, timers, dead>>

\* the callback joinRoom schedules one second after the second player joined
A_startGameTimer(k) ==
    /\ k \in 1..Len(timers)
    /\ timers[k].kind = "startGame"
    /\ timers' = RemoveAt(timers, k)
    /\ rooms' = IF timers[k].roomId \in DOMAIN rooms
                THEN [rooms EXCEPT ![timers[k].roomId] =
                         IF A_startGame(@, now).ok
                         THEN A_addSystemMessage(A_startGame(@, now).room)
                         ELSE @]
                ELSE rooms
    /\ UNCHANGED <<playersMap, ledger, now, reply, dead>>

\* the makeMove handler as it would be without the test of gameOver
A_onMakeMove_afterEnd(s, roomId, r, c) ==
    /\ s \notin dead
    /\ UNCHANGED <<playersMap, now, timers, dead>>
    /\ IF roomId \notin DOMAIN rooms \/ ~HasInfo(s)
       THEN reply' = A_emit("moveError") /\ UNCHANGED <<rooms, ledger>>
       ELSE LET room == rooms[roomId]
                k == FindIndex(room.players, LAMBDA p : p.color = room.currentPlayer)
            IN IF ~room.gameStarted
               THEN reply' = A_emit("moveError") /\ UNCHANGED <<rooms, ledger>>
               ELSE IF k = 0 \/ room.players[k].id # s
               THEN reply' = A_emit("moveError") /\ UNCHANGED <<rooms, ledger>>
               ELSE IF ~A_isValidMove(room.board, r, c, room.currentPlayer)
               THEN reply' = A_emit("moveError") /\ UNCHANGED <<rooms, ledger>>
               ELSE \E moveResult \in {A_makeMove(room, r, c, room.currentPlayer, now)} :
                    \E ce \in {A_checkGameEnd(moveResult.room, now)} :
                       /\ reply' = IF ce.threw THEN A_emit("moveError") ELSE NoReply
                       /\ ledger' = ledger \o ce.calls
                       /\ rooms' = [rooms EXCEPT ![roomId] =
                                      IF ce.threw THEN ce.room
                                      ELSE IF ~ce.ret THEN A_switchPlayer(ce.room, now)
                                      ELSE A_addSystemMessage(ce.room)]

\* the makeMove handler: a moveError to the requesting socket, or nothing for
\* it alone when the move is broadcast to the room
A_onMakeMove(s, roomId, r, c) ==
    /\ s \notin dead
    /\ UNCHANGED <<playersMap, now, timers, dead>>
    /\ IF roomId \notin DOMAIN rooms \/ ~HasInfo(s)
       THEN reply' = A_emit("moveError") /\ UNCHANGED <<rooms, ledger>>
       ELSE LET room == rooms[roomId]
                k == FindIndex(room.players, LAMBDA p : p.color = room.currentPlayer)
            IN IF ~room.gameStarted \/ room.gameOver
               THEN reply' = A_emit("moveError") /\ UNCHANGED <<rooms, ledger>>
               ELSE IF k = 0 \/ room.players[k].id # s
               THEN reply' = A_emit("moveError") /\ UNCHANGED <<rooms, ledger>>
               ELSE IF ~A_isValidMove(room.board, r, c, room.currentPlayer)
               THEN reply' = A_emit("moveError") /\ UNCHANGED <<rooms, ledger>>
               ELSE \E moveResult \in {A_makeMove(room, r, c, room.currentPlayer, now)} :
                    \E ce \in {A_checkGameEnd(moveResult.room, now)} :
                       /\ reply' = IF ce.threw THEN A_emit("moveError") ELSE NoReply
                       /\ ledger' = ledger \o ce.calls
                       /\ rooms' = [rooms EXCEPT ![roomId] =
                                      IF ce.threw THEN ce.room
                                      ELSE IF ~ce.ret THEN A_switchPlayer(ce.room, now)
                                      ELSE A_addSystemMessage(ce.room)]

\* socket.on('chatMessage') with a message that is not blank
A_onChatMessage(s, roomId) ==
    /\ s \notin dead
    /\ UNCHANGED <<playersMap, ledger, now, timers, reply, dead>>
    /\ rooms' = IF HasInfo(s) /\ roomId \in DOMAIN rooms
                THEN [rooms EXCEPT ![roomId] = A_addChatMessage(@)]
                ELSE rooms

A_onLeaveRoom(s) ==
    /\ s \notin dead
    /\ HasInfo(s)
    /\ UNCHANGED <<now, dead>>
    /\ LET roomId == playersMap[s].roomId
       IN IF roomId \notin DOMAIN rooms
          THEN UNCHANGED <<rooms, playersMap, ledger, timers, reply>>
          ELSE LET removeResult == A_removePlayer(rooms[roomId], s, now)
                   room == A_addSystemMessage(removeResult.room)
                   interrupted == /\ room.gameStarted /\ ~room.gameOver
                                  /\ removeResult.success /\ removeResult.player
                                  /\ ConnectedCount(room.players) > 0
                   remainingPlayer == room.players[FindIndex(room.players,
                                                             LAMBDA p : p.connected)]
                   ended == [room EXCEPT !.gameOver = TRUE,
                                         !.winner = remainingPlayer.color]
                   res == A_handleGameResult(ended)
                   final == IF ~interrupted THEN room
                            ELSE IF res.threw THEN ended
                            ELSE A_addSystemMessage(ended)
               IN /\ playersMap' = [playersMap EXCEPT ![s] = NoInfo]
                  /\ rooms' = [rooms EXCEPT ![roomId] = final]
                  /\ ledger' = IF interrupted THEN ledger \o res.calls ELSE ledger
                  /\ reply' = reply
                  /\ timers' = IF /\ ~(interrupted /\ res.threw)
                                  /\ EveryDisconnected(final.players)
                                  /\ Len(final.spectators) = 0
                               THEN Append(timers, [kind |-> "removeRoom", roomId |-> roomId])
                               ELSE timers
                  /\ Len(timers') <= MaxTimers

\* the callback leaveRoom schedules two seconds after the last participant left
A_removeRoomTimer(k) ==
    /\ k \in 1..Len(timers)
    /\ timers[k].kind = "removeRoom"
    /\ LET roomId == timers[k].roomId
       IN IF /\ roomId \in DOMAIN rooms
             /\ EveryDisconnected(rooms[roomId].players)
             /\ Len(rooms[roomId].spectators) = 0
          THEN /\ rooms' = Without(rooms, roomId)
               /\ timers' = SelectSeq(RemoveAt(timers, k), LAMBDA x : x.roomId # roomId)
          ELSE /\ rooms' = rooms
               /\ timers' = RemoveAt(timers, k)
    /\ UNCHANGED <<playersMap, ledger, now, reply, dead>>

\* reconnectAttempt as it would be if it took a new seat instead of the old one
A_onReconnectAttempt_newSeat(s, roomId, playerName) ==
    /\ s \notin dead
    /\ UNCHANGED <<ledger, now, timers, dead>>
    /\ reply' = reply
    /\ IF roomId \notin DOMAIN rooms
       THEN UNCHANGED <<rooms, playersMap>>
       ELSE LET room == rooms[roomId]
                k == FindIndex(room.players, LAMBDA p : p.name = playerName)
            IN IF k # 0 /\ ~room.players[k].connected
               THEN /\ rooms' = [rooms EXCEPT ![roomId] = A_addSystemMessage(
                                        [@ EXCEPT !.players[k].id = s,
                                                  !.players[k].connected = TRUE,
                                                  !.players[k].color = 2,
                                                  !.players[k].isHost = FALSE])]
                    /\ playersMap' = [playersMap EXCEPT
                          ![s] = Info(roomId, playerName, FALSE, FALSE)]
               ELSE UNCHANGED <<rooms, playersMap>>

A_onReconnectAttempt(s, roomId, playerName) ==
    /\ s \notin dead
    /\ UNCHANGED <<ledger, now, timers, dead>>
    /\ IF roomId \notin DOMAIN rooms
       THEN reply' = reply /\ UNCHANGED <<rooms, playersMap>>
       ELSE LET room == rooms[roomId]
                k == FindIndex(room.players, LAMBDA p : p.name = playerName)
            IN IF k # 0 /\ ~room.players[k].connected
               THEN /\ rooms' = [rooms EXCEPT ![roomId] = A_addSystemMessage(
                                        [@ EXCEPT !.players[k].id = s,
                                                  !.players[k].connected = TRUE])]
                    /\ playersMap' = [playersMap EXCEPT
                          ![s] = Info(roomId, playerName, room.players[k].isHost, FALSE)]
                    /\ reply' = reply
               ELSE reply' = reply /\ UNCHANGED <<rooms, playersMap>>

A_onDisconnect(s) ==
    /\ s \notin dead
    /\ dead' = dead \cup {s}
    /\ rooms' = IF HasInfo(s) /\ playersMap[s].roomId \in DOMAIN rooms
                THEN [rooms EXCEPT ![playersMap[s].roomId] =
                         A_addSystemMessage(A_removePlayer(@, s, now).room)]
                ELSE rooms
    /\ UNCHANGED <<playersMap, ledger, now, timers, reply>>

A_onStartGame(s, roomId) ==
    /\ s \notin dead
    /\ UNCHANGED <<playersMap, ledger, now, timers, dead>>
    /\ IF roomId \notin DOMAIN rooms \/ ~HasInfo(s) \/ ~playersMap[s].isHost
       THEN reply' = reply /\ UNCHANGED rooms
       ELSE IF ConnectedCount(rooms[roomId].players) < 2
       THEN reply' = reply /\ UNCHANGED rooms
       ELSE IF A_startGame(rooms[roomId], now).ok
       THEN /\ rooms' = [rooms EXCEPT ![roomId] = A_addSystemMessage(A_startGame(@, now).room)]
            /\ reply' = reply
       ELSE reply' = reply /\ UNCHANGED rooms

\* the restartGame handler as it would be if it kept the move history
A_onRestartGame_keepHistory(s, roomId) ==
    /\ s \notin dead
    /\ Len(ledger) <= MaxLedger
    /\ UNCHANGED <<playersMap, ledger, now, timers, dead>>
    /\ IF roomId \notin DOMAIN rooms \/ ~HasInfo(s) \/ ~playersMap[s].isHost
       THEN reply' = reply /\ UNCHANGED rooms
       ELSE IF ~rooms[roomId].gameOver
       THEN reply' = reply /\ UNCHANGED rooms
       ELSE /\ rooms' = [rooms EXCEPT ![roomId] = A_addSystemMessage(
                           [@ EXCEPT !.board = A_initializeBoard,
                                     !.scores = A_updateScores(A_initializeBoard),
                                     !.currentPlayer = 1,
                                     !.gameStarted = FALSE,
                                     !.gameOver = FALSE,
                                     !.winner = null,
                                     !.lastActivity = now])]
            /\ reply' = reply

A_onRestartGame(s, roomId) ==
    /\ s \notin dead
    /\ Len(ledger) <= MaxLedger
    /\ UNCHANGED <<playersMap, ledger, now, timers, dead>>
    /\ IF roomId \notin DOMAIN rooms \/ ~HasInfo(s) \/ ~playersMap[s].isHost
       THEN reply' = reply /\ UNCHANGED rooms
       ELSE IF ~rooms[roomId].gameOver
       THEN reply' = reply /\ UNCHANGED rooms
       ELSE /\ rooms' = [rooms EXCEPT ![roomId] = A_addSystemMessage(
                           [@ EXCEPT !.board = A_initializeBoard,
                                     !.scores = A_updateScores(A_initializeBoard),
                                     !.currentPlayer = 1,
                                     !.gameStarted = FALSE,
                                     !.gameOver = FALSE,
                                     !.winner = null,
                                     !.moveHistory = << >>,
                                     !.lastActivity = now])]
            /\ reply' = reply

\* one room of the periodic sweep, at time t: the room that is left, and
\* whether the sweep deletes it
A_sweepRoom(rm, t) ==
    LET kept == SelectSeq(rm.players,
                   LAMBDA p : ~(~p.connected /\ (t - rm.lastActivity) > A_DISCONNECT_TIMEOUT))
        shouldRemoveRoom ==
            \/ /\ t - rm.lastActivity > A_INACTIVE_TIMEOUT
               /\ EveryDisconnected(kept) /\ Len(rm.spectators) = 0
            \/ Len(kept) = 0 /\ Len(rm.spectators) = 0
    IN [room |-> [rm EXCEPT !.players = kept], remove |-> shouldRemoveRoom]

\* the setInterval callback; the short timers (1 s, 2 s) have fired before it
A_cleanup ==
    /\ now < MaxSweeps * SWEEP
    /\ timers = << >>
    /\ now' = now + SWEEP
    /\ LET keep == {id \in DOMAIN rooms : ~A_sweepRoom(rooms[id], now').remove}
       IN /\ rooms' = [id \in keep |-> A_sweepRoom(rooms[id], now').room]
          /\ playersMap' = [s \in Sockets |->
                              IF HasInfo(s) /\ playersMap[s].roomId \notin keep
                              THEN NoInfo ELSE playersMap[s]]
    /\ UNCHANGED <<ledger, timers, reply, dead>>

NextA ==
    \/ \E cl \in Clients : A_createRoom(cl[1], cl[2])
    \/ \E cl \in Clients, id \in RoomIds : A_joinRoom(cl[1], id, cl[2])
    \/ \E k \in 1..MaxTimers : A_startGameTimer(k)
    \/ \E cl \in Clients, id \in RoomIds, x \in OpeningCells :
           A_onMakeMove(cl[1], id, x[1], x[2])
    \/ \E cl \in Clients : A_onLeaveRoom(cl[1])
    \/ \E k \in 1..MaxTimers : A_removeRoomTimer(k)
    \/ \E cl \in Clients, id \in RoomIds : A_onReconnectAttempt(cl[1], id, cl[2])
    \/ \E cl \in Clients : A_onDisconnect(cl[1])
    \/ A_cleanup

\* the lobby: three clients who join, leave, drop and come back, and open a match
SpecA == InitCommon /\ [][NextA]_vars

NextAPlay ==
    \/ \E cl \in Duel : A_createRoom(cl[1], cl[2])
    \/ \E cl \in Duel, id \in RoomIds : A_joinRoom(cl[1], id, cl[2])
    \/ \E k \in 1..MaxTimers : A_startGameTimer(k)
    \/ \E cl \in Duel, id \in RoomIds, x \in MoveCells :
           A_onMakeMove(cl[1], id, x[1], x[2])
    \/ \E cl \in Duel, id \in RoomIds : A_onStartGame(cl[1], id)
    \/ \E cl \in Duel, id \in RoomIds : A_onRestartGame(cl[1], id)

\* the match: two clients who stay connected and play
SpecAPlay == InitCommon /\ [][NextAPlay]_vars

\* a match whose players drop and come back, under the scheduling the
\* runtime guarantees: a timer that is due fires, the sweep keeps running
NextADrop ==
    \/ \E cl \in Clients : A_createRoom(cl[1], cl[2])
    \/ \E cl \in Clients, id \in RoomIds : A_joinRoom(cl[1], id, cl[2])
    \/ \E k \in 1..MaxTimers : A_startGameTimer(k)
    \/ \E cl \in Clients, id \in RoomIds, x \in OpeningCells :
           A_onMakeMove(cl[1], id, x[1], x[2])
    \/ \E cl \in Clients, id \in RoomIds : A_onReconnectAttempt(cl[1], id, cl[2])
    \/ \E cl \in Clients : A_onDisconnect(cl[1])
    \/ A_cleanup

SpecADrop ==
    /\ InitCommon
    /\ [][NextADrop]_vars
    /\ WF_vars(\E k \in 1..MaxTimers : A_startGameTimer(k))
    /\ WF_vars(A_cleanup)

(***************************************************************************)
(* B: src/unnamed/part_001 -- AIPlayer                                     *)
(***************************************************************************)
B_directions == << <<-1,-1>>, <<-1,0>>, <<-1,1>>, <<0,-1>>,
                   <<0,1>>, <<1,-1>>, <<1,0>>, <<1,1>> >>

\* isValidDirection as it would be if a disc of the mover closed the ray
\* without a run of the other side before it
RECURSIVE B_isValidDirection_noRun(_, _, _, _, _, _, _)
B_isValidDirection_noRun(b, x, y, dx, dy, player, hasOpponent) ==
    IF ~OnBoard(x, y) THEN FALSE
    ELSE IF b[x][y] = 0 THEN FALSE
    ELSE IF b[x][y] = player THEN TRUE
    ELSE B_isValidDirection_noRun(b, x + dx, y + dy, dx, dy, player, TRUE)

\* isValidDirection / isValidDirectionForBoard: the scan starts at (x, y)
RECURSIVE B_isValidDirection(_, _, _, _, _, _, _)
B_isValidDirection(b, x, y, dx, dy, player, hasOpponent) ==
    IF ~OnBoard(x, y) THEN FALSE
    ELSE IF b[x][y] = 0 THEN FALSE
    ELSE IF b[x][y] = player THEN hasOpponent
    ELSE B_isValidDirection(b, x + dx, y + dy, dx, dy, player, TRUE)

B_isValidCell(b, row, col, player) ==
    /\ b[row][col] = 0
    /\ \E i \in 1..8 :
          B_isValidDirection(b, row + B_directions[i][1], col + B_directions[i][2],
                             B_directions[i][1], B_directions[i][2], player, FALSE)

\* getValidMoves / getValidMovesForBoard: the list, in row-major order
RECURSIVE B_movesInRow(_, _, _, _)
B_movesInRow(b, player, row, col) ==
    IF col > 7 THEN << >>
    ELSE (IF B_isValidCell(b, row, col, player)
          THEN << [row |-> row, col |-> col] >> ELSE << >>)
         \o B_movesInRow(b, player, row, col + 1)

RECURSIVE B_movesFrom(_, _, _)
B_movesFrom(b, player, row) ==
    IF row > 7 THEN << >>
    ELSE B_movesInRow(b, player, row, 0) \o B_movesFrom(b, player, row + 1)

B_getValidMoves(b, player) == B_movesFrom(b, player, 0)

\* the cells one direction of flipPieces collects
RECURSIVE B_piecesToFlip(_, _, _, _, _, _, _)
B_piecesToFlip(b, x, y, dx, dy, player, pieces) ==
    IF ~OnBoard(x, y) THEN << >>
    ELSE IF b[x][y] = 0 THEN << >>
    ELSE IF b[x][y] = player THEN pieces
    ELSE B_piecesToFlip(b, x + dx, y + dy, dx, dy, player, Append(pieces, <<x, y>>))

RECURSIVE B_toFlip(_, _, _, _, _)
B_toFlip(b, row, col, player, i) ==
    IF i > 8 THEN << >>
    ELSE B_piecesToFlip(b, row + B_directions[i][1], col + B_directions[i][2],
                        B_directions[i][1], B_directions[i][2], player, << >>)
         \o B_toFlip(b, row, col, player, i + 1)

\* flipPieces, on the board that already holds the new disc
B_flipPieces(b, row, col, player) ==
    [board |-> SetCells(b, B_toFlip(b, row, col, player, 1), player),
     flippedPieces |-> B_toFlip(b, row, col, player, 1)]

\* AIPlayer.countFlips: the while loop of one direction, from cell (x, y)
RECURSIVE B_countRay(_, _, _, _, _, _, _)
B_countRay(b, x, y, dx, dy, player, flips) ==
    IF ~OnBoard(x, y) THEN 0
    ELSE IF b[x][y] = 0 THEN 0
    ELSE IF b[x][y] = player THEN flips
    ELSE B_countRay(b, x + dx, y + dy, dx, dy, player, flips + 1)

\* AIPlayer.countFlips: totalFlips over the directions from the i-th on
RECURSIVE B_countFrom(_, _, _, _, _)
B_countFrom(b, row, col, player, i) ==
    IF i > 8 THEN 0
    ELSE B_countRay(b, row + B_directions[i][1], col + B_directions[i][2],
                    B_directions[i][1], B_directions[i][2], player, 0)
         + B_countFrom(b, row, col, player, i + 1)

B_countFlips(b, row, col, player) == B_countFrom(b, row, col, player, 1)

B_isCorner(move) == move.row \in {0, 7} /\ move.col \in {0, 7}
B_isEdge(move) == move.row \in {0, 7} \/ move.col \in {0, 7}
Abs(x) == IF x < 0 THEN -x ELSE x

B_isNextToCorner(row, col) ==
    \E cr \in {0, 7}, cc \in {0, 7} :
        Abs(row - cr) <= 1 /\ Abs(col - cc) <= 1 /\ ~(row = cr /\ col = cc)

\* makeExpertMove, "Avoid squares next to corners": what it adds to the score
B_cornerPenalty(row, col) == IF B_isNextToCorner(row, col) THEN -50 ELSE 0

B_evaluateMobility(b, move, player) ==
    -Len(B_getValidMoves([b EXCEPT ![move.row][move.col] = player], Opp(player)))

B_expertScore(b, move, player) ==
    (IF B_isCorner(move) THEN 100
     ELSE IF B_isEdge(move) /\ ~B_isNextToCorner(move.row, move.col) THEN 20 ELSE 0)
    + B_cornerPenalty(move.row, move.col)
    + B_countFlips(b, move.row, move.col, player) * 2
    + B_evaluateMobility(b, move, player)

\* the forEach loop of makeSmartMove as it would be with >= for >
RECURSIVE B_smartLoop_last(_, _, _, _, _, _)
B_smartLoop_last(b, validMoves, player, i, bestMove, maxFlips) ==
    IF i > Len(validMoves) THEN bestMove
    ELSE LET flips == B_countFlips(b, validMoves[i].row, validMoves[i].col, player)
         IN IF flips >= maxFlips
            THEN B_smartLoop_last(b, validMoves, player, i + 1, validMoves[i], flips)
            ELSE B_smartLoop_last(b, validMoves, player, i + 1, bestMove, maxFlips)

\* the forEach loop of makeSmartMove from move i on
RECURSIVE B_smartLoop(_, _, _, _, _, _)
B_smartLoop(b, validMoves, player, i, bestMove, maxFlips) ==
    IF i > Len(validMoves) THEN bestMove
    ELSE LET flips == B_countFlips(b, validMoves[i].row, validMoves[i].col, player)
         IN IF flips > maxFlips
            THEN B_smartLoop(b, validMoves, player, i + 1, validMoves[i], flips)
            ELSE B_smartLoop(b, validMoves, player, i + 1, bestMove, maxFlips)

\* makeSmartMove as it would be if bestMove started as no move at all
B_makeSmartMove_blank(b, validMoves, player) ==
    LET corners == {i \in 1..Len(validMoves) : B_isCorner(validMoves[i])}
    IN IF corners # {} THEN {validMoves[i] : i \in corners}
       ELSE {B_smartLoop(b, validMoves, player, 1, [row |-> null, col |-> null], 0)}

\* makeSmartMove: the moves it may return
B_makeSmartMove(b, validMoves, player) ==
    LET corners == {i \in 1..Len(validMoves) : B_isCorner(validMoves[i])}
    IN IF corners # {} THEN {validMoves[i] : i \in corners}
       ELSE {B_smartLoop(b, validMoves, player, 1, validMoves[1], 0)}

NegInfinity == -1000000

\* the forEach loop of makeExpertMove from move i on
RECURSIVE B_expertLoop(_, _, _, _, _, _)
B_expertLoop(b, validMoves, player, i, bestMove, bestScore) ==
    IF i > Len(validMoves) THEN bestMove
    ELSE LET score == B_expertScore(b, validMoves[i], player)
         IN IF score > bestScore
            THEN B_expertLoop(b, validMoves, player, i + 1, validMoves[i], score)
            ELSE B_expertLoop(b, validMoves, player, i + 1, bestMove, bestScore)

B_makeExpertMove(b, validMoves, player) ==
    {B_expertLoop(b, validMoves, player, 1, validMoves[1], NegInfinity)}

B_makeRandomMove(validMoves) == {validMoves[i] : i \in 1..Len(validMoves)}

\* AIPlayer.makeMove after its thinking delay: the moves it may return
\* (the empty set stands for null)
B_aiMakeMove(difficulty, b, validMoves, player) ==
    IF Len(validMoves) = 0 THEN {}
    ELSE IF difficulty = "easy" THEN B_makeRandomMove(validMoves)
    ELSE IF difficulty = "medium" THEN B_makeSmartMove(b, validMoves, player)
    ELSE IF difficulty = "hard" THEN B_makeExpertMove(b, validMoves, player)
    ELSE B_makeRandomMove(validMoves)

(***************************************************************************)
(* B: src/unnamed/part_001 -- GameRoom                                     *)
(***************************************************************************)
B_initialBoard ==
    [EmptyBoard EXCEPT ![3][3] = 2, ![3][4] = 1, ![4][3] = 1, ![4][4] = 2]

B_GameRoom(creatorId, creatorName, gameMode, t) ==
    [ gameMode |-> gameMode,
      aiDifficulty |-> "medium",
      players |-> << [id |-> creatorId, name |-> creatorName, playerNumber |-> 1,
                      connected |-> TRUE, isAI |-> FALSE] >>,
      board |-> B_initialBoard,
      currentPlayer |-> 1,
      gameStarted |-> FALSE,
      gameOver |-> FALSE,
      winner |-> null,
      spectators |-> << >>,
      lastActivity |-> t,
      moveHistory |-> << >>,
      ai |-> "none" ]

B_addAIPlayer(rm, difficulty) ==
    IF Len(rm.players) >= 2 THEN rm
    ELSE [rm EXCEPT !.ai = difficulty,
                    !.aiDifficulty = difficulty,
                    !.players = Append(@, [id |-> "ai-player", name |-> "AI",
                                           playerNumber |-> 2, connected |-> TRUE,
                                           isAI |-> TRUE]),
                    !.gameMode = "ai",
                    !.gameStarted = TRUE]

B_addPlayer(rm, playerId, playerName) ==
    IF Len(rm.players) >= 2 THEN [ok |-> FALSE, room |-> rm]
    ELSE [ok |-> TRUE,
          room |-> [rm EXCEPT !.players = Append(@, [id |-> playerId, name |-> playerName,
                                                     playerNumber |-> 2, connected |-> TRUE,
                                                     isAI |-> FALSE]),
                              !.gameStarted = (Len(rm.players) + 1 = 2) \/ @]]

B_statsCall(name, result) == [fn |-> "updatePlayerStats", name |-> name, result |-> result]
B_boardCall(name, result) == [fn |-> "updateLeaderboard", name |-> name, result |-> result]

B_resultOf(winner, playerNumber) ==
    IF winner = playerNumber THEN "win" ELSE IF winner # 0 THEN "loss" ELSE "draw"

\* the forEach of endGame as it would be without the test of isAI
RECURSIVE B_reportCalls_all(_, _, _)
B_reportCalls_all(ps, winner, i) ==
    IF i > Len(ps) THEN << >>
    ELSE << B_statsCall(ps[i].name, B_resultOf(winner, ps[i].playerNumber)),
            B_boardCall(ps[i].name, B_resultOf(winner, ps[i].playerNumber)) >>
         \o B_reportCalls_all(ps, winner, i + 1)

\* the forEach of endGame over the roster, from entry i on
RECURSIVE B_reportCalls(_, _, _)
B_reportCalls(ps, winner, i) ==
    IF i > Len(ps) THEN << >>
    ELSE (IF ~ps[i].isAI
          THEN << B_statsCall(ps[i].name, B_resultOf(winner, ps[i].playerNumber)),
                  B_boardCall(ps[i].name, B_resultOf(winner, ps[i].playerNumber)) >>
          ELSE << >>)
         \o B_reportCalls(ps, winner, i + 1)

\* the winner of endGame as it would be if the side with fewer discs won
B_winnerOf_fewest(b) ==
    IF CountOf(b, 1) < CountOf(b, 2) THEN 1
    ELSE IF CountOf(b, 2) < CountOf(b, 1) THEN 2 ELSE 0

B_winnerOf(b) ==
    IF CountOf(b, 1) > CountOf(b, 2) THEN 1
    ELSE IF CountOf(b, 2) > CountOf(b, 1) THEN 2 ELSE 0

\* endGame: the room afterwards and the ledger calls it makes
B_endGame(rm) ==
    [room |-> [rm EXCEPT !.gameOver = TRUE, !.winner = B_winnerOf(rm.board)],
     calls |-> B_reportCalls(rm.players, B_winnerOf(rm.board), 1)]

\* switchPlayer as it would be without the pass rule: the turn always changes
B_switchPlayer_noPass(rm) ==
    [room |-> [rm EXCEPT !.currentPlayer = Opp(@)], calls |-> << >>]

B_switchPlayer(rm) ==
    LET nextPlayer == Opp(rm.currentPlayer)
    IN IF Len(B_getValidMoves(rm.board, nextPlayer)) > 0
       THEN [room |-> [rm EXCEPT !.currentPlayer = nextPlayer], calls |-> << >>]
       ELSE IF Len(B_getValidMoves(rm.board, rm.currentPlayer)) = 0
            THEN B_endGame(rm)
            ELSE [room |-> rm, calls |-> << >>]

B_checkGameOver(rm) ==
    IF CountOf(rm.board, 1) + CountOf(rm.board, 2) = 64 THEN B_endGame(rm)
    ELSE IF /\ Len(B_getValidMoves(rm.board, 1)) = 0
            /\ Len(B_getValidMoves(rm.board, 2)) = 0
         THEN B_endGame(rm)
         ELSE [room |-> rm, calls |-> << >>]

\* the part of makeMove and makeAIMove after the legality checks: place the
\* disc, flip, record, switchPlayer, checkGameOver, stamp
B_applyMove(rm, row, col, player, t) ==
    LET fl == B_flipPieces([rm.board EXCEPT ![row][col] = player], row, col, player)
        placed == [rm EXCEPT !.board = fl.board,
                             !.moveHistory = Append(@, [player |-> player, row |-> row,
                                                        col |-> col,
                                                        flippedPieces |-> fl.flippedPieces])]
        sw == B_switchPlayer(placed)
        go == B_checkGameOver(sw.room)
    IN [room |-> [go.room EXCEPT !.lastActivity = t],
        calls |-> sw.calls \o go.calls,
        flippedPieces |-> fl.flippedPieces]

\* GameRoom.makeMove: result, room afterwards, ledger calls, and whether the
\* 500 ms makeAIMove timer is set
B_makeMove(rm, row, col, playerId, t) ==
    LET k == FindIndex(rm.players, LAMBDA p : p.id = playerId)
        fail(e) == [success |-> FALSE, error |-> e, room |-> rm, calls |-> << >>,
                    aiTimer |-> FALSE]
    IN IF rm.gameOver \/ ~rm.gameStarted THEN fail("Game not active")
       ELSE IF k = 0 \/ rm.players[k].playerNumber # rm.currentPlayer
       THEN fail("Not your turn")
       ELSE IF rm.board[row][col] # 0 THEN fail("Cell occupied")
       ELSE IF ~B_isValidCell(rm.board, row, col, rm.currentPlayer)
       THEN fail("Invalid move")
       ELSE LET ap == B_applyMove(rm, row, col, rm.currentPlayer, t)
            IN [success |-> TRUE, error |-> "", room |-> ap.room, calls |-> ap.calls,
                aiTimer |-> ap.room.gameMode = "ai" /\ ~ap.room.gameOver
                            /\ ap.room.currentPlayer = 2]

B_resetGame(rm, t) ==
    [rm EXCEPT !.board = B_initialBoard,
               !.currentPlayer = 1,
               !.gameOver = FALSE,
               !.winner = null,
               !.moveHistory = << >>,
               !.lastActivity = t]

B_removePlayer(rm, playerId) ==
    LET k == FindIndex(rm.players, LAMBDA p : p.id = playerId)
    IN IF k # 0 THEN [rm EXCEPT !.players[k].connected = FALSE] ELSE rm

(***************************************************************************)
(* B: src/unnamed/part_001 -- socket handlers, timers, makeAIMove          *)
(***************************************************************************)
B_INACTIVE_TIMEOUT == 60   \* minutes
B_SWEEP == 60              \* minutes between two sweeps
Difficulties == {"easy", "medium", "hard"}

B_Info(id, name) == [roomId |-> id, playerName |-> name]
LiveBoard == [live |-> TRUE, board |-> EmptyBoard]

\* a makeAIMove call scheduled by setTimeout: waiting for its timer
B_aiTask(kind, roomId, pair) ==
    [kind |-> kind, roomId |-> roomId, pc |-> "timer", moves |-> << >>,
     ref |-> LiveBoard, pair |-> pair]

FreshPair == CHOOSE n \in 0..MaxTimers :
                 \A k \in 1..Len(timers) : timers[k].kind = "removeRoom" \/ timers[k].pair # n

\* generateRoomId: six random digits, not compared with the ids in use
B_generateRoomId == RoomIds

\* room.players.every(p => !p.connected), as the disconnect callback reads it
B_everyGone(room) == IF EveryDisconnected(room.players) THEN "yes" ELSE "no"

B_createRoom(s, playerName, gameMode, aiDifficulty) ==
    /\ s \notin dead
    /\ Len(ledger) < MaxLedger
    /\ \E roomId \in B_generateRoomId :
          /\ rooms' = (roomId :> (IF gameMode = "ai"
                                  THEN B_addAIPlayer(B_GameRoom(s, playerName, gameMode, now),
                                                     aiDifficulty)
                                  ELSE B_GameRoom(s, playerName, gameMode, now))) @@ rooms
          /\ playersMap' = [playersMap EXCEPT ![s] = B_Info(roomId, playerName)]
          /\ timers' = IF roomId \in DOMAIN rooms
                       THEN Orphan(timers, roomId, B_everyGone(rooms[roomId]))
                       ELSE timers
    /\ UNCHANGED <<ledger, now, reply, dead>>

B_joinRoom(s, roomId, playerName) ==
    /\ s \notin dead
    /\ UNCHANGED <<ledger, now, timers, reply, dead>>
    /\ IF roomId \notin DOMAIN rooms THEN UNCHANGED <<rooms, playersMap>>
       ELSE IF Len(rooms[roomId].players) >= 2 THEN UNCHANGED <<rooms, playersMap>>
       ELSE /\ rooms' = [rooms EXCEPT ![roomId] = B_addPlayer(@, s, playerName).room]
            /\ playersMap' = [playersMap EXCEPT ![s] = B_Info(roomId, playerName)]

\* socket.on('makeMove'): GameRoom.makeMove sets the 500 ms timer, the
\* handler the 1000 ms timer; `reply` holds the message of the 'error' event
\* the handler sends to the socket when the submission is rejected
B_onMakeMoveWithin(s, row, col, maxTimers) ==
    /\ s \notin dead
    /\ UNCHANGED <<playersMap, now, dead>>
    /\ IF ~HasInfo(s)
       THEN reply' = Reply(s, "Player not in any room") /\ UNCHANGED <<rooms, ledger, timers>>
       ELSE IF playersMap[s].roomId \notin DOMAIN rooms
       THEN reply' = Reply(s, "Room not found") /\ UNCHANGED <<rooms, ledger, timers>>
       ELSE \E result \in {B_makeMove(rooms[playersMap[s].roomId], row, col, s, now)} :
               /\ reply' = IF result.success THEN NoReply ELSE Reply(s, result.error)
               /\ rooms' = [rooms EXCEPT ![playersMap[s].roomId] = result.room]
               /\ ledger' = ledger \o result.calls
               /\ timers' = IF result.success /\ result.aiTimer
                            THEN timers \o << B_aiTask("t500", playersMap[s].roomId, FreshPair),
                                              B_aiTask("t1000", playersMap[s].roomId, FreshPair) >>
                            ELSE timers
               /\ Len(timers') <= maxTimers

B_onMakeMove(s, row, col) == B_onMakeMoveWithin(s, row, col, MaxTimers)

\* the moveMade event the makeMove handler sends to the room once
\* room.makeMove succeeded; `room` is the room as makeMove left it
B_moveMade(room, row, col) ==
    [row |-> row, col |-> col,
     player |-> IF room.currentPlayer = 1 THEN 2 ELSE 1]

\* a makeAIMove timer fires: the 500 ms timers fire in the order they were
\* set, and so do the 1000 ms timers, each after the 500 ms timer of its move
B_mayFire(k) ==
    /\ k \in 1..Len(timers)
    /\ timers[k].kind \in {"t500", "t1000"}
    /\ timers[k].pc = "timer"
    /\ \A j \in 1..(k - 1) :
          timers[j].kind \in {"t500", "t1000"} /\ timers[j].pc = "timer"
             => timers[j].kind # timers[k].kind /\ timers[k].kind = "t500"

\* makeAIMove up to its await as it would be if it called ai.makeMove
\* without the list it computed
B_makeAIMoveStart_noList(k) ==
    /\ B_mayFire(k)
    /\ UNCHANGED <<playersMap, now, reply, dead>>
    /\ IF timers[k].roomId \notin DOMAIN rooms
       THEN timers' = RemoveAt(timers, k) /\ UNCHANGED <<rooms, ledger>>
       ELSE LET rm == rooms[timers[k].roomId]
            IN IF rm.ai = "none" \/ rm.gameOver \/ rm.currentPlayer # 2
               THEN timers' = RemoveAt(timers, k) /\ UNCHANGED <<rooms, ledger>>
               ELSE \E validMoves \in {B_getValidMoves(rm.board, 2)} :
                  IF Len(validMoves) = 0
                  THEN \E sw \in {B_switchPlayer(rm)} :
                          /\ rooms' = [rooms EXCEPT ![timers[k].roomId] = sw.room]
                          /\ ledger' = ledger \o sw.calls
                          /\ timers' = RemoveAt(timers, k)
                  ELSE /\ timers' = [timers EXCEPT ![k].pc = "thinking"]
                       /\ UNCHANGED <<rooms, ledger>>

\* makeAIMove up to its await: the guard, the legal moves, the forced pass
B_makeAIMoveStart(k) ==
    /\ B_mayFire(k)
    /\ UNCHANGED <<playersMap, now, reply, dead>>
    /\ IF timers[k].roomId \notin DOMAIN rooms
       THEN timers' = RemoveAt(timers, k) /\ UNCHANGED <<rooms, ledger>>
       ELSE LET rm == rooms[timers[k].roomId]
            IN IF rm.ai = "none" \/ rm.gameOver \/ rm.currentPlayer # 2
               THEN timers' = RemoveAt(timers, k) /\ UNCHANGED <<rooms, ledger>>
               ELSE \E validMoves \in {B_getValidMoves(rm.board, 2)} :
                  IF Len(validMoves) = 0
                  THEN \E sw \in {B_switchPlayer(rm)} :
                          /\ rooms' = [rooms EXCEPT ![timers[k].roomId] = sw.room]
                          /\ ledger' = ledger \o sw.calls
                          /\ timers' = RemoveAt(timers, k)
                  ELSE /\ timers' = [timers EXCEPT ![k].pc = "thinking",
                                                   ![k].moves = validMoves]
                       /\ UNCHANGED <<rooms, ledger>>

\* the thinking delay (1 to 3 s) of a call is over: AIPlayer.makeMove picks
\* a move from the list it was given and makeAIMove applies it.  The delay
\* of the 500 ms call ends after the 1000 ms timer of the same move fired.
B_mayResume(k) ==
    /\ k \in 1..Len(timers)
    /\ timers[k].kind \in {"t500", "t1000"}
    /\ timers[k].pc = "thinking"
    /\ ~\E j \in 1..Len(timers) : /\ timers[j].kind = "t1000" /\ timers[j].pc = "timer"
                                  /\ timers[j].pair = timers[k].pair

B_makeAIMoveFinish(k) ==
    /\ B_mayResume(k)
    /\ UNCHANGED <<playersMap, now, reply, dead>>
    /\ IF timers[k].roomId \notin DOMAIN rooms
       THEN timers' = RemoveAt(timers, k) /\ UNCHANGED <<rooms, ledger>>
       ELSE LET rm == rooms[timers[k].roomId]
                b == IF timers[k].ref.live THEN rm.board ELSE timers[k].ref.board
            IN \E move \in B_aiMakeMove(rm.ai, b, timers[k].moves, 2) :
               \E ap \in {B_applyMove(rm, move.row, move.col, 2, now)} :
                  /\ rooms' = [rooms EXCEPT ![timers[k].roomId] = ap.room]
                  /\ ledger' = ledger \o ap.calls
                  /\ timers' = RemoveAt(timers, k)

\* socket.on('resetGame'): the room gets a new board array; a thinking
\* makeAIMove call keeps the array it was started with
B_onResetGame(s) ==
    /\ s \notin dead
    /\ HasInfo(s)
    /\ playersMap[s].roomId \in DOMAIN rooms
    /\ rooms' = [rooms EXCEPT ![playersMap[s].roomId] = B_resetGame(@, now)]
    /\ timers' = [k \in 1..Len(timers) |->
                    IF /\ timers[k].kind \in {"t500", "t1000"}
                       /\ timers[k].roomId = playersMap[s].roomId
                       /\ timers[k].pc = "thinking" /\ timers[k].ref.live
                    THEN [timers[k] EXCEPT
                             !.ref = [live |-> FALSE,
                                      board |-> rooms[playersMap[s].roomId].board]]
                    ELSE timers[k]]
    /\ UNCHANGED <<playersMap, ledger, now, reply, dead>>

B_onDisconnect(s) ==
    /\ s \notin dead
    /\ dead' = dead \cup {s}
    /\ IF HasInfo(s)
       THEN /\ playersMap' = [playersMap EXCEPT ![s] = NoInfo]
            /\ IF playersMap[s].roomId \in DOMAIN rooms
               THEN /\ rooms' = [rooms EXCEPT ![playersMap[s].roomId] = B_removePlayer(@, s)]
                    /\ timers' = Append(timers, [kind |-> "removeRoom",
                                                 roomId |-> playersMap[s].roomId,
                                                 every |-> "live"])
                    /\ Len(timers') <= MaxTimers + 1
               ELSE UNCHANGED <<rooms, timers>>
       ELSE UNCHANGED <<rooms, playersMap, timers>>
    /\ UNCHANGED <<ledger, now, reply>>

\* the callback disconnect schedules five minutes later
B_removeRoomTimer(k) ==
    /\ k \in 1..Len(timers)
    /\ timers[k].kind = "removeRoom"
    /\ LET roomId == timers[k].roomId
           every == IF timers[k].every = "live"
                    THEN B_everyGone(rooms[roomId])
                    ELSE timers[k].every
       IN IF every = "yes"
          THEN /\ rooms' = Without(rooms, roomId)
               /\ timers' = Orphan(RemoveAt(timers, k), roomId, "yes")
          ELSE /\ rooms' = rooms
               /\ timers' = RemoveAt(timers, k)
    /\ UNCHANGED <<playersMap, ledger, now, reply, dead>>

\* the hourly setInterval callback; the shorter timers have fired before it
B_cleanup ==
    /\ now < MaxSweeps * B_SWEEP
    /\ timers = << >>
    /\ now' = now + B_SWEEP
    /\ rooms' = [id \in {x \in DOMAIN rooms :
                            ~(now' - rooms[x].lastActivity > B_INACTIVE_TIMEOUT)}
                   |-> rooms[id]]
    /\ UNCHANGED <<playersMap, ledger, timers, reply, dead>>

Solo == {<<"s1", "a">>}

\* a client and the automated opponent
NextB ==
    \/ \E cl \in Solo, d \in Difficulties : B_createRoom(cl[1], cl[2], "ai", d)
    \/ \E cl \in Solo, x \in OpeningCells :
          /\ \A id \in DOMAIN rooms : Len(rooms[id].moveHistory) < MaxPlies
          /\ B_onMakeMove(cl[1], x[1], x[2])
    \/ \E k \in 1..MaxTimers : B_makeAIMoveStart(k)
    \/ \E k \in 1..MaxTimers : B_makeAIMoveFinish(k)
    \/ \E cl \in Solo : Len(ledger) <= 2 * MaxLedger /\ B_onResetGame(cl[1])
    \/ \E cl \in Solo : B_onDisconnect(cl[1])
    \/ \E k \in 1..(MaxTimers + 1) : B_removeRoomTimer(k)
    \/ B_cleanup

SpecB == InitCommon /\ [][NextB]_vars

\* two clients who stay connected and play
NextBPlay ==
    \/ \E cl \in Duel : B_createRoom(cl[1], cl[2], "online", "medium")
    \/ \E cl \in Duel, id \in RoomIds : B_joinRoom(cl[1], id, cl[2])
    \/ \E cl \in Duel, x \in MoveCells : B_onMakeMove(cl[1], x[1], x[2])
    \/ \E cl \in Duel : Len(ledger) <= 2 * MaxLedger /\ B_onResetGame(cl[1])

SpecBPlay == InitCommon /\ [][NextBPlay]_vars

(***************************************************************************)
(* S: src/server.js, first variant -- GameRoom                             *)
(***************************************************************************)
S_directions == << <<-1,-1>>, <<-1,0>>, <<-1,1>>, <<0,-1>>,
                   <<0,1>>, <<1,-1>>, <<1,0>>, <<1,1>> >>

S_updateScores(b) == <<CountOf(b, 1), CountOf(b, 2)>>

\* initializeBoard: it also resets the match flags, the turn and the history
S_initializeBoard(rm, t) ==
    [rm EXCEPT !.board = [EmptyBoard EXCEPT ![3][3] = 1, ![3][4] = 2,
                                            ![4][3] = 2, ![4][4] = 1],
               !.scores = <<2, 2>>,
               !.currentPlayer = 1,
               !.gameStarted = FALSE,
               !.gameOver = FALSE,
               !.winner = null,
               !.moveHistory = << >>,
               !.lastActivity = t]

S_GameRoom(hostSocketId, hostName, t) ==
    S_initializeBoard(
        [ board |-> EmptyBoard,
          currentPlayer |-> 1,
          players |-> << [id |-> hostSocketId, name |-> hostName, color |-> 1,
                          connected |-> TRUE, isHost |-> TRUE] >>,
          gameStarted |-> FALSE,
          gameOver |-> FALSE,
          winner |-> null,
          scores |-> <<0, 0>>,
          lastActivity |-> t,
          moveHistory |-> << >> ], t)

S_addPlayer(rm, socketId, playerName, t) ==
    IF Len(rm.players) < 2
    THEN LET k == FindIndex(rm.players, LAMBDA p : p.name = playerName /\ ~p.connected)
         IN IF k # 0
            THEN [success |-> TRUE, reconnected |-> TRUE,
                  room |-> [rm EXCEPT !.players[k].id = socketId,
                                      !.players[k].connected = TRUE,
                                      !.lastActivity = t]]
            ELSE [success |-> TRUE, reconnected |-> FALSE,
                  room |-> [rm EXCEPT !.players = Append(@,
                                         [id |-> socketId, name |-> playerName, color |-> 2,
                                          connected |-> TRUE, isHost |-> FALSE]),
                                      !.lastActivity = t]]
    ELSE [success |-> FALSE, reconnected |-> FALSE, room |-> rm]

S_removePlayer(rm, socketId, t) ==
    LET playerIndex == FindIndex(rm.players, LAMBDA p : p.id = socketId)
    IN IF playerIndex # 0
       THEN [found |-> TRUE, name |-> rm.players[playerIndex].name,
             room |-> [rm EXCEPT !.players[playerIndex].connected = FALSE,
                                 !.lastActivity = t]]
       ELSE [found |-> FALSE, name |-> "", room |-> rm]

\* startGame: the flags are set before initializeBoard runs
S_startGame(rm, t) ==
    IF Len(rm.players) = 2
    THEN [ok |-> TRUE,
          room |-> S_initializeBoard([rm EXCEPT !.gameStarted = TRUE,
                                                !.gameOver = FALSE], t)]
    ELSE [ok |-> FALSE, room |-> rm]

S_resetGame(rm, t) ==
    [S_initializeBoard(rm, t) EXCEPT !.gameStarted = FALSE, !.gameOver = FALSE,
                                     !.winner = null]

\* the while loop of isValidMove / applyMove: where it stops, and the path
RECURSIVE S_walk(_, _, _, _, _, _, _)
S_walk(b, nr, nc, dr, dc, opponent, path) ==
    IF OnBoard(nr, nc) /\ b[nr][nc] = opponent
    THEN S_walk(b, nr + dr, nc + dc, dr, dc, opponent, Append(path, <<nr, nc>>))
    ELSE [nr |-> nr, nc |-> nc, path |-> path]

S_flips(b, r, c, i, player) ==
    LET w == S_walk(b, r + S_directions[i][1], c + S_directions[i][2],
                    S_directions[i][1], S_directions[i][2], Opp(player), << >>)
    IN IF OnBoard(w.nr, w.nc) /\ b[w.nr][w.nc] = player /\ Len(w.path) > 0
       THEN w.path ELSE << >>

S_isValidMove(b, r, c, player) ==
    /\ b[r][c] = 0
    /\ \E i \in 1..8 : Len(S_flips(b, r, c, i, player)) > 0

S_calculateValidMoves(b, player) ==
    {x \in Cells : b[x[1]][x[2]] = 0 /\ S_isValidMove(b, x[1], x[2], player)}

\* applyMove as it would be if its loops ended at the first direction that
\* flips, as the loops of isValidMove do
RECURSIVE S_applyFrom_break(_, _, _, _, _, _)
S_applyFrom_break(b, r, c, player, i, piecesFlipped) ==
    IF i > 8 \/ piecesFlipped > 0 THEN [board |-> b, piecesFlipped |-> piecesFlipped]
    ELSE S_applyFrom_break(SetCells(b, S_flips(b, r, c, i, player), player), r, c, player,
                           i + 1, piecesFlipped + Len(S_flips(b, r, c, i, player)))

\* applyMove from direction i on, on the board that holds the new disc
RECURSIVE S_applyFrom(_, _, _, _, _, _)
S_applyFrom(b, r, c, player, i, piecesFlipped) ==
    IF i > 8 THEN [board |-> b, piecesFlipped |-> piecesFlipped]
    ELSE S_applyFrom(SetCells(b, S_flips(b, r, c, i, player), player), r, c, player,
                     i + 1, piecesFlipped + Len(S_flips(b, r, c, i, player)))

S_applyMove(b, r, c, player) ==
    S_applyFrom([b EXCEPT ![r][c] = player], r, c, player, 1, 0)

S_determineWinner(rm) ==
    IF rm.scores[1] > rm.scores[2] THEN 1
    ELSE IF rm.scores[2] > rm.scores[1] THEN 2 ELSE 0

S_checkGameEnd(rm) ==
    IF \/ rm.scores[1] + rm.scores[2] = 64
       \/ /\ S_calculateValidMoves(rm.board, rm.currentPlayer) = {}
          /\ S_calculateValidMoves(rm.board, Opp(rm.currentPlayer)) = {}
    THEN [rm EXCEPT !.gameOver = TRUE, !.winner = S_determineWinner(rm)]
    ELSE rm

S_updateLeaderboard(winnerName, loserName, isDraw) ==
    [fn |-> "updateLeaderboard", winner |-> winnerName, loser |-> loserName,
     isDraw |-> isDraw]

(***************************************************************************)
(* S: src/server.js, first variant -- socket handlers and timers           *)
(***************************************************************************)
S_SWEEP == 5              \* minutes between two sweeps
S_EMPTY_TIMEOUT == 10     \* minutes
S_STALE_TIMEOUT == 30     \* minutes

S_Info(id, name) == [roomId |-> id, name |-> name]

\* generateRoomId: six random characters, not compared with the ids in use
S_generateRoomId == RoomIds

\* room.getConnectedPlayerCount() === 0, as the disconnect callback reads it
S_noneConnected(room) == IF ConnectedCount(room.players) = 0 THEN "yes" ELSE "no"

S_createRoom(s, playerName) ==
    /\ s \notin dead
    /\ Len(ledger) < MaxLedger
    /\ \E roomId \in S_generateRoomId :
          /\ rooms' = (roomId :> S_GameRoom(s, playerName, now)) @@ rooms
          /\ playersMap' = [playersMap EXCEPT ![s] = S_Info(roomId, playerName)]
          /\ timers' = IF roomId \in DOMAIN rooms
                       THEN Orphan(timers, roomId, S_noneConnected(rooms[roomId]))
                       ELSE timers
    /\ reply' = Reply(s, "roomCreated")
    /\ UNCHANGED <<ledger, now, dead>>

\* the part joinRoom and rejoinRoom share: a same-name disconnected entry is
\* handed to addPlayer; rebound tells whether roomJoined was sent
S_tryRebind(s, roomId, playerName) ==
    LET room == rooms[roomId]
        k == FindIndex(room.players, LAMBDA p : p.name = playerName)
        res == S_addPlayer(room, s, playerName, now)
    IN IF k # 0 /\ ~room.players[k].connected
       THEN IF res.success /\ res.reconnected
            THEN [rebound |-> TRUE, room |-> res.room]
            ELSE [rebound |-> FALSE, room |-> res.room]
       ELSE [rebound |-> FALSE, room |-> room]

S_joinRoom(s, roomId, playerName) ==
    /\ s \notin dead
    /\ UNCHANGED <<ledger, now, timers, dead>>
    /\ IF roomId \notin DOMAIN rooms
       THEN reply' = Reply(s, "joinRoomError") /\ UNCHANGED <<rooms, playersMap>>
       ELSE IF Len(rooms[roomId].players) >= 2
       THEN \E rb \in {S_tryRebind(s, roomId, playerName)} :
               IF rb.rebound
               THEN /\ rooms' = [rooms EXCEPT ![roomId] = rb.room]
                    /\ playersMap' = [playersMap EXCEPT ![s] = S_Info(roomId, playerName)]
                    /\ reply' = Reply(s, "roomJoined")
               ELSE /\ rooms' = [rooms EXCEPT ![roomId] = rb.room]
                    /\ reply' = Reply(s, "joinRoomError")
                    /\ UNCHANGED playersMap
       ELSE \E res \in {S_addPlayer(rooms[roomId], s, playerName, now)} :
               IF res.success /\ ~res.reconnected
               THEN /\ rooms' = [rooms EXCEPT ![roomId] =
                                   IF Len(res.room.players) = 2
                                   THEN S_startGame(res.room, now).room
                                   ELSE res.room]
                    /\ playersMap' = [playersMap EXCEPT ![s] = S_Info(roomId, playerName)]
                    /\ reply' = Reply(s, "roomJoined")
               ELSE /\ rooms' = [rooms EXCEPT ![roomId] = res.room]
                    /\ reply' = (IF ~res.success THEN Reply(s, "joinRoomError") ELSE NoReply)
                    /\ UNCHANGED playersMap

S_rejoinRoom(s, roomId, playerName) ==
    /\ s \notin dead
    /\ UNCHANGED <<ledger, now, timers, dead>>
    /\ IF roomId \notin DOMAIN rooms
       THEN reply' = Reply(s, "roomNotFound") /\ UNCHANGED <<rooms, playersMap>>
       ELSE \E rb \in {S_tryRebind(s, roomId, playerName)} :
               IF rb.rebound
               THEN /\ rooms' = [rooms EXCEPT ![roomId] = rb.room]
                    /\ playersMap' = [playersMap EXCEPT ![s] = S_Info(roomId, playerName)]
                    /\ reply' = Reply(s, "roomJoined")
               ELSE /\ rooms' = [rooms EXCEPT ![roomId] = rb.room]
                    /\ reply' = Reply(s, "roomNotFound")
                    /\ UNCHANGED playersMap

\* the names updateLeaderboard is called with after a match ended through
\* play: none when a name is missing (a draw has no player of colour 0)
S_playReport(rm) ==
    LET w == FindIndex(rm.players, LAMBDA p : p.color = rm.winner)
        l == FindIndex(rm.players, LAMBDA p : p.color # rm.winner)
    IN IF rm.winner # null /\ w # 0 /\ l # 0
       THEN << S_updateLeaderboard(rm.players[w].name, rm.players[l].name, rm.winner = 0) >>
       ELSE << >>

\* the accepted branch of the makeMove handler
S_accepted(rm, row, col, t) ==
    LET ap == S_applyMove(rm.board, row, col, rm.currentPlayer)
        placed == [rm EXCEPT !.board = ap.board,
                             !.scores = S_updateScores(ap.board),
                             !.moveHistory = Append(@, [player |-> rm.currentPlayer,
                                                        row |-> row, col |-> col,
                                                        flipped |-> ap.piecesFlipped]),
                             !.lastActivity = t]
        nextPlayer == Opp(rm.currentPlayer)
    IN IF S_calculateValidMoves(placed.board, nextPlayer) = {}
       THEN IF S_calculateValidMoves(placed.board, placed.currentPlayer) = {}
            THEN [room |-> S_checkGameEnd(placed),
                  calls |-> S_playReport(S_checkGameEnd(placed))]
            ELSE [room |-> placed, calls |-> << >>]
       ELSE [room |-> [placed EXCEPT !.currentPlayer = nextPlayer], calls |-> << >>]

S_onMakeMove(s, roomId, row, col) ==
    /\ s \notin dead
    /\ UNCHANGED <<playersMap, now, timers, dead>>
    /\ IF roomId \notin DOMAIN rooms
       THEN reply' = Reply(s, "invalidMove") /\ UNCHANGED <<rooms, ledger>>
       ELSE LET room == rooms[roomId]
                k == FindIndex(room.players, LAMBDA p : p.id = s)
            IN IF ~room.gameStarted \/ room.gameOver
               THEN reply' = Reply(s, "invalidMove") /\ UNCHANGED <<rooms, ledger>>
               ELSE IF k = 0 \/ room.players[k].color # room.currentPlayer
               THEN reply' = Reply(s, "invalidMove") /\ UNCHANGED <<rooms, ledger>>
               ELSE IF ~S_isValidMove(room.board, row, col, room.currentPlayer)
               THEN reply' = Reply(s, "invalidMove") /\ UNCHANGED <<rooms, ledger>>
               ELSE \E acc \in {S_accepted(room, row, col, now)} :
                       /\ rooms' = [rooms EXCEPT ![roomId] = acc.room]
                       /\ ledger' = ledger \o acc.calls
                       /\ reply' = Reply(s, "gameUpdate")

S_onResetGame(s, roomId) ==
    /\ s \notin dead
    /\ UNCHANGED <<playersMap, ledger, now, timers, dead>>
    /\ IF roomId \notin DOMAIN rooms
       THEN reply' = NoReply /\ UNCHANGED rooms
       ELSE LET room == rooms[roomId]
                k == FindIndex(room.players, LAMBDA p : p.id = s)
            IN IF k # 0 /\ room.players[k].isHost
               THEN /\ rooms' = [rooms EXCEPT ![roomId] = S_resetGame(room, now)]
                    /\ reply' = Reply(s, "gameStarted")
               ELSE reply' = Reply(s, "error") /\ UNCHANGED rooms

\* what leaveRoom and disconnect do when one connected player is left in a
\* started match: the match ends and the remaining player is reported winner
S_forfeit(rm, loserName) ==
    LET c == FindIndex(rm.players, LAMBDA p : p.connected)
        ended == [rm EXCEPT !.gameOver = TRUE, !.winner = rm.players[c].color]
        w == FindIndex(ended.players, LAMBDA p : p.color = ended.winner)
    IN [room |-> ended,
        calls |-> IF w # 0
                  THEN << S_updateLeaderboard(ended.players[w].name, loserName, FALSE) >>
                  ELSE << >>]

S_onLeaveRoom(s, roomId) ==
    /\ s \notin dead
    /\ UNCHANGED <<now, dead>>
    /\ reply' = NoReply
    /\ IF roomId \notin DOMAIN rooms
       THEN UNCHANGED <<rooms, playersMap, ledger, timers>>
       ELSE \E playerLeft \in {S_removePlayer(rooms[roomId], s, now)} :
               IF ~playerLeft.found
               THEN UNCHANGED <<rooms, playersMap, ledger, timers>>
               ELSE /\ playersMap' = [playersMap EXCEPT ![s] = NoInfo]
                    /\ IF ConnectedCount(playerLeft.room.players) = 0
                       THEN /\ rooms' = Without(rooms, roomId)
                            /\ timers' = Orphan(timers, roomId, "yes")
                            /\ UNCHANGED ledger
                       ELSE IF ConnectedCount(playerLeft.room.players) = 1
                               /\ playerLeft.room.gameStarted
                       THEN \E f \in {S_forfeit(playerLeft.room, playerLeft.name)} :
                               /\ rooms' = [rooms EXCEPT ![roomId] = f.room]
                               /\ ledger' = ledger \o f.calls
                               /\ UNCHANGED timers
                       ELSE /\ rooms' = [rooms EXCEPT ![roomId] = playerLeft.room]
                            /\ UNCHANGED <<ledger, timers>>

S_onDisconnect(s) ==
    /\ s \notin dead
    /\ dead' = dead \cup {s}
    /\ UNCHANGED <<now, reply>>
    /\ IF ~HasInfo(s)
       THEN UNCHANGED <<rooms, playersMap, ledger, timers>>
       ELSE /\ playersMap' = [playersMap EXCEPT ![s] = NoInfo]
            /\ IF playersMap[s].roomId \notin DOMAIN rooms
               THEN UNCHANGED <<rooms, ledger, timers>>
               ELSE LET roomId == playersMap[s].roomId
                        gone == S_removePlayer(rooms[roomId], s, now)
                        f == S_forfeit(gone.room, gone.name)
                        ends == ConnectedCount(gone.room.players) = 1
                                /\ gone.room.gameStarted
                    IN /\ gone.found
                       /\ rooms' = [rooms EXCEPT ![roomId] =
                                       IF ends THEN f.room ELSE gone.room]
                       /\ ledger' = IF ends THEN ledger \o f.calls ELSE ledger
                       /\ timers' = IF ConnectedCount(gone.room.players) = 0
                                    THEN Append(timers, [kind |-> "grace", roomId |-> roomId,
                                                         every |-> "live"])
                                    ELSE timers
                       /\ Len(timers') <= MaxTimers

\* the callback disconnect schedules for one minute later
S_graceTimer(k) ==
    /\ k \in 1..Len(timers)
    /\ timers[k].kind = "grace"
    /\ LET roomId == timers[k].roomId
           every == IF timers[k].every = "live"
                    THEN S_noneConnected(rooms[roomId])
                    ELSE timers[k].every
       IN IF every = "yes"
          THEN /\ rooms' = Without(rooms, roomId)
               /\ timers' = Orphan(RemoveAt(timers, k), roomId, "yes")
          ELSE /\ rooms' = rooms
               /\ timers' = RemoveAt(timers, k)
    /\ UNCHANGED <<playersMap, ledger, now, reply, dead>>

\* the rooms the sweep at time t deletes
S_swept(t) ==
    {id \in DOMAIN rooms :
        \/ /\ ConnectedCount(rooms[id].players) = 0
           /\ t - rooms[id].lastActivity > S_EMPTY_TIMEOUT
        \/ /\ ConnectedCount(rooms[id].players) > 0
           /\ t - rooms[id].lastActivity > S_STALE_TIMEOUT
           /\ ~rooms[id].gameStarted}

\* the setInterval callback; the connected players of a stale room are
\* disconnected, and their disconnect handlers find the room gone
S_cleanup ==
    /\ now < MaxIdleSweeps * S_SWEEP
    /\ timers = << >>
    /\ now' = now + S_SWEEP
    /\ LET kicked == {x \in Sockets :
                         \E id \in S_swept(now') :
                            /\ ConnectedCount(rooms[id].players) > 0
                            /\ \E i \in 1..Len(rooms[id].players) :
                                  /\ rooms[id].players[i].id = x
                                  /\ rooms[id].players[i].connected}
       IN /\ rooms' = [id \in (DOMAIN rooms) \ S_swept(now') |-> rooms[id]]
          /\ dead' = dead \cup kicked
          /\ playersMap' = [s \in Sockets |-> IF s \in kicked THEN NoInfo ELSE playersMap[s]]
    /\ UNCHANGED <<ledger, timers, reply>>

NextS ==
    \/ \E cl \in Clients : S_createRoom(cl[1], cl[2])
    \/ \E cl \in Clients, id \in RoomIds : S_joinRoom(cl[1], id, cl[2])
    \/ \E cl \in Clients, id \in RoomIds : S_rejoinRoom(cl[1], id, cl[2])
    \/ \E cl \in Clients, id \in RoomIds, x \in OpeningCells :
          S_onMakeMove(cl[1], id, x[1], x[2])
    \/ \E cl \in Clients, id \in RoomIds : S_onResetGame(cl[1], id)
    \/ \E cl \in Clients, id \in RoomIds : S_onLeaveRoom(cl[1], id)
    \/ \E cl \in Clients : S_onDisconnect(cl[1])
    \/ \E k \in 1..MaxTimers : S_graceTimer(k)
    \/ S_cleanup

SpecS == InitCommon /\ [][NextS]_vars

(***************************************************************************)
(* The move rules of the three generations, tried on boards that hold a    *)
(* line of discs from an edge or a corner                                  *)
(***************************************************************************)
\* the lines: along the top row, down the left column, and down the two
\* diagonals from the top corners
Lines == { [k \in 1..LineLen |-> <<0, k - 1>>], [k \in 1..LineLen |-> <<k - 1, 0>>],
           [k \in 1..LineLen |-> <<k - 1, k - 1>>], [k \in 1..LineLen |-> <<k - 1, 8 - k>>] }

BoardOf(line, f) ==
    [r \in 0..7 |-> [c \in 0..7 |->
        IF \E k \in 1..LineLen : line[k] = <<r, c>>
        THEN f[CHOOSE k \in 1..LineLen : line[k] = <<r, c>>] ELSE 0]]

LineBoards == {BoardOf(line, f) : line \in Lines, f \in [1..LineLen -> {0, 1, 2}]}

InitMoves ==
    /\ \E b \in LineBoards :
          rooms = ("R1" :> [A_GameRoom("s1", "a", 0) EXCEPT !.board = b,
                                                           !.scores = A_updateScores(b)])
    /\ playersMap = [s \in Sockets |-> NoInfo]
    /\ ledger = << >>
    /\ now = 0
    /\ timers = << >>
    /\ reply = NoReply
    /\ dead = {}

ValidMovesReply(impl, player, moves) ==
    [to |-> impl, event |-> "validMoves", player |-> player, moves |-> moves]

\* part_000: room.getValidMoves(playerColor)
A_validMovesCall(playerColor) ==
    /\ reply' = ValidMovesReply("part_000", playerColor,
                                A_getValidMoves(rooms["R1"].board, playerColor))
    /\ UNCHANGED <<rooms, playersMap, ledger, now, timers, dead>>

\* part_001: room.getValidMoves(player), the list as a set of cells
B_validMovesCall(player) ==
    /\ \E validMoves \in {B_getValidMoves(rooms["R1"].board, player)} :
          reply' = ValidMovesReply("part_001", player,
                      {<<validMoves[i].row, validMoves[i].col>> : i \in 1..Len(validMoves)})
    /\ UNCHANGED <<rooms, playersMap, ledger, now, timers, dead>>

\* server.js: room.calculateValidMoves(player)
S_validMovesCall(player) ==
    /\ reply' = ValidMovesReply("server.js", player,
                                S_calculateValidMoves(rooms["R1"].board, player))
    /\ UNCHANGED <<rooms, playersMap, ledger, now, timers, dead>>

NextMoves ==
    \/ \E p \in {1, 2} : A_validMovesCall(p)
    \/ \E p \in {1, 2} : B_validMovesCall(p)
    \/ \E p \in {1, 2} : S_validMovesCall(p)

SpecMoves == InitMoves /\ [][NextMoves]_vars

(***************************************************************************)
(* Matches played to the last cell: part_000 and part_001 rooms whose two  *)
(* clients replay complete games                                           *)
(***************************************************************************)
\* three complete games of 60 moves without a pass, sides alternating from
\* side 1: the first ends 36-28, the second 25-39, the third 32-32
FullGames ==
   {
     <<
        <<4,5>>, <<3,5>>, <<2,2>>, <<5,3>>, <<2,5>>, <<2,6>>, <<6,3>>, <<1,1>>, <<2,7>>, <<7,3>>,
        <<5,2>>, <<4,6>>, <<3,2>>, <<2,4>>, <<2,3>>, <<1,5>>, <<0,0>>, <<4,2>>, <<6,2>>, <<3,6>>,
        <<5,4>>, <<6,1>>, <<5,6>>, <<6,5>>, <<0,5>>, <<1,2>>, <<6,4>>, <<1,0>>, <<1,3>>, <<7,4>>,
        <<2,1>>, <<6,7>>, <<4,1>>, <<3,7>>, <<7,0>>, <<4,7>>, <<0,2>>, <<0,3>>, <<7,2>>, <<5,5>>,
        <<0,4>>, <<7,1>>, <<7,5>>, <<1,7>>, <<2,0>>, <<3,1>>, <<3,0>>, <<0,1>>, <<6,6>>, <<1,4>>,
        <<1,6>>, <<0,6>>, <<5,1>>, <<5,0>>, <<4,0>>, <<7,6>>, <<5,7>>, <<6,0>>, <<0,7>>, <<7,7>> >>,
     <<
        <<5,4>>, <<5,5>>, <<2,3>>, <<4,2>>, <<5,1>>, <<6,4>>, <<5,2>>, <<2,4>>, <<6,5>>, <<6,1>>,
        <<6,3>>, <<5,0>>, <<6,2>>, <<1,3>>, <<4,6>>, <<7,6>>, <<1,5>>, <<2,5>>, <<1,4>>, <<3,5>>,
        <<0,2>>, <<0,3>>, <<3,2>>, <<0,6>>, <<4,0>>, <<7,2>>, <<4,1>>, <<3,1>>, <<6,0>>, <<7,1>>,
        <<6,6>>, <<7,4>>, <<2,0>>, <<7,7>>, <<2,1>>, <<7,3>>, <<0,5>>, <<1,2>>, <<7,0>>, <<3,6>>,
        <<0,4>>, <<5,3>>, <<2,6>>, <<3,0>>, <<1,0>>, <<4,5>>, <<2,2>>, <<4,7>>, <<5,7>>, <<0,0>>,
        <<7,5>>, <<1,1>>, <<2,7>>, <<0,1>>, <<3,7>>, <<5,6>>, <<6,7>>, <<1,6>>, <<0,7>>, <<1,7>> >>,
     <<
        <<4,5>>, <<3,5>>, <<2,6>>, <<5,2>>, <<3,2>>, <<2,5>>, <<2,3>>, <<1,3>>, <<4,2>>, <<3,6>>,
        <<0,3>>, <<5,4>>, <<5,3>>, <<1,6>>, <<5,5>>, <<6,2>>, <<6,1>>, <<4,1>>, <<7,2>>, <<5,6>>,
        <<3,0>>, <<2,2>>, <<6,7>>, <<5,1>>, <<2,1>>, <<1,0>>, <<3,7>>, <<4,7>>, <<5,7>>, <<2,4>>,
        <<1,5>>, <<7,0>>, <<5,0>>, <<0,2>>, <<1,1>>, <<6,0>>, <<0,6>>, <<0,1>>, <<1,2>>, <<6,4>>,
        <<6,5>>, <<4,6>>, <<0,0>>, <<7,1>>, <<6,6>>, <<3,1>>, <<7,3>>, <<1,7>>, <<2,0>>, <<7,6>>,
        <<7,7>>, <<7,4>>, <<7,5>>, <<0,4>>, <<2,7>>, <<4,0>>, <<1,4>>, <<6,3>>, <<0,7>>, <<0,5>> >> }

\* the cells the clients submit next: the next move of the games that begin
\* with the moves made so far
NextOf(cellsSoFar) ==
    {g[Len(cellsSoFar) + 1] :
        g \in {h \in FullGames : /\ Len(cellsSoFar) < Len(h)
                                 /\ \A i \in 1..Len(cellsSoFar) : h[i] = cellsSoFar[i]}}

\* the registry holds rooms of one generation at a time
A_room(id) == id \in DOMAIN rooms /\ "scores" \in DOMAIN rooms[id]
B_room(id) == id \in DOMAIN rooms /\ "ai" \in DOMAIN rooms[id]

A_nextCells(id) ==
    NextOf([i \in 1..Len(rooms[id].moveHistory) |->
               <<rooms[id].moveHistory[i].r, rooms[id].moveHistory[i].c>>])
B_nextCells(id) ==
    NextOf([i \in 1..Len(rooms[id].moveHistory) |->
               <<rooms[id].moveHistory[i].row, rooms[id].moveHistory[i].col>>])

NextFull ==
    \/ \E cl \in Duel : A_createRoom(cl[1], cl[2])
    \/ \E cl \in Duel, id \in RoomIds : A_room(id) /\ A_joinRoom(cl[1], id, cl[2])
    \/ \E k \in 1..MaxTimers : A_startGameTimer(k)
    \/ \E cl \in Duel, id \in RoomIds :
          /\ A_room(id)
          /\ \E x \in A_nextCells(id) : A_onMakeMove(cl[1], id, x[1], x[2])
    \/ \E cl \in Duel :
          /\ \A id \in DOMAIN rooms : B_room(id)
          /\ B_createRoom(cl[1], cl[2], "online", "medium")
    \/ \E cl \in Duel, id \in RoomIds : B_room(id) /\ B_joinRoom(cl[1], id, cl[2])
    \/ \E cl \in Duel, id \in RoomIds :
          /\ B_room(id)
          /\ playersMap[cl[1]] = B_Info(id, cl[2])
          /\ \E x \in B_nextCells(id) : B_onMakeMove(cl[1], x[1], x[2])

SpecFull == InitCommon /\ [][NextFull]_vars

(***************************************************************************)
(* The flips of part_000 and of server.js, tried on every legal move of    *)
(* the positions of the complete games                                     *)
(***************************************************************************)
FlippedReply(impl, b, r, c, player, after, count, flipped) ==
    [to |-> impl, event |-> "flipped", before |-> b, r |-> r, c |-> c, player |-> player,
     board |-> after, count |-> count, flipped |-> flipped]

\* part_000: room.makeMove(r, c, playerColor) on the board of the room
A_makeMoveCall(id, r, c, playerColor) ==
    /\ \E res \in {A_makeMove(rooms[id], r, c, playerColor, now)} :
          /\ res.success
          /\ reply' = FlippedReply("part_000", rooms[id].board, r, c, playerColor,
                                   res.room.board, Len(res.flippedPieces),
                                   {res.flippedPieces[i] : i \in 1..Len(res.flippedPieces)})
    /\ UNCHANGED <<rooms, playersMap, ledger, now, timers, dead>>

\* server.js: room.applyMove(r, c, player) on the same board, for a move
\* its isValidMove accepts; it returns the number of discs it flipped
S_applyMoveCall(id, r, c, player) ==
    /\ S_isValidMove(rooms[id].board, r, c, player)
    /\ \E res \in {S_applyMove(rooms[id].board, r, c, player)} :
          reply' = FlippedReply("server.js", rooms[id].board, r, c, player,
                                res.board, res.piecesFlipped, {})
    /\ UNCHANGED <<rooms, playersMap, ledger, now, timers, dead>>

\* the position is one about which the implementations are asked, once
FlipsAsked(id) == A_room(id) /\ reply.event # "flipped"

NextFlips ==
    \/ \E cl \in Duel : A_createRoom(cl[1], cl[2])
    \/ \E cl \in Duel, id \in RoomIds : A_joinRoom(cl[1], id, cl[2])
    \/ \E k \in 1..MaxTimers : A_startGameTimer(k)
    \/ \E cl \in Duel, id \in RoomIds :
          /\ A_room(id)
          /\ \E x \in A_nextCells(id) : A_onMakeMove(cl[1], id, x[1], x[2])
    \/ \E id \in RoomIds, p \in {1, 2}, x \in Cells :
          FlipsAsked(id) /\ A_makeMoveCall(id, x[1], x[2], p)
    \/ \E id \in RoomIds, p \in {1, 2}, x \in Cells :
          FlipsAsked(id) /\ S_applyMoveCall(id, x[1], x[2], p)

SpecFlips == InitCommon /\ [][NextFlips]_vars

(***************************************************************************)
(* part_000 matches that end, by the last move or by a player leaving, and *)
(* are started again by the host                                           *)
(***************************************************************************)
NextAOver ==
    \/ \E cl \in Duel : A_createRoom(cl[1], cl[2])
    \/ \E cl \in Duel, id \in RoomIds : A_joinRoom(cl[1], id, cl[2])
    \/ \E k \in 1..MaxTimers : A_startGameTimer(k)
    \/ \E cl \in Duel, id \in RoomIds :
          /\ A_room(id)
          /\ \E x \in A_nextCells(id) : A_onMakeMove(cl[1], id, x[1], x[2])
    \/ \E cl \in Duel : A_onLeaveRoom(cl[1])
    \/ \E k \in 1..MaxTimers : A_removeRoomTimer(k)
    \/ \E cl \in Duel, id \in RoomIds : A_onStartGame(cl[1], id)
    \/ \E cl \in Duel, id \in RoomIds : A_onRestartGame(cl[1], id)

SpecAOver == InitCommon /\ [][NextAOver]_vars

(***************************************************************************)
(* The automated opponent of part_001, asked for a move on positions of    *)
(* the recorded games                                                      *)
(***************************************************************************)
MaxMoves == 2   \* longest list of arbitrary cells handed to the opponent

\* the numbers of moves after which the opponent is asked
AiPlies == {12, 40, 58}

\* a corner, the edge cell next to it, another edge cell and an inner cell
AiCells == { [row |-> 0, col |-> 0], [row |-> 0, col |-> 1],
             [row |-> 0, col |-> 3], [row |-> 2, col |-> 4] }
AiLists == UNION {[1..n -> AiCells] : n \in 1..MaxMoves}
AllDifficulties == Difficulties \cup {"expert"}

\* ai.makeMove(board, validMoves, currentPlayer) of an opponent with the
\* given difficulty, on the board of room id
B_aiMakeMoveCall(id, difficulty, validMoves, currentPlayer) ==
    /\ \E move \in B_aiMakeMove(difficulty, rooms[id].board, validMoves, currentPlayer) :
          reply' = [to |-> "ai", event |-> "aiMove", difficulty |-> difficulty,
                    board |-> rooms[id].board, validMoves |-> validMoves,
                    player |-> currentPlayer, move |-> move]
    /\ UNCHANGED <<rooms, playersMap, ledger, now, timers, dead>>

\* the position is one of those the opponent is asked about, once
AiAsked(id) ==
    /\ B_room(id)
    /\ Len(rooms[id].moveHistory) \in AiPlies
    /\ reply = NoReply

NextAi ==
    \/ \E cl \in Solo : B_createRoom(cl[1], cl[2], "online", "medium")
    \/ \E cl \in Duel, id \in RoomIds : B_room(id) /\ B_joinRoom(cl[1], id, cl[2])
    \/ \E cl \in Duel, id \in RoomIds :
          /\ B_room(id)
          /\ playersMap[cl[1]] = B_Info(id, cl[2])
          /\ \E x \in B_nextCells(id) : B_onMakeMove(cl[1], x[1], x[2])
    \/ \E id \in RoomIds, d \in AllDifficulties, validMoves \in AiLists, p \in {1, 2} :
          AiAsked(id) /\ B_aiMakeMoveCall(id, d, validMoves, p)
    \/ \E id \in RoomIds, d \in AllDifficulties, p \in {1, 2} :
          /\ AiAsked(id)
          /\ \E validMoves \in {B_getValidMoves(rooms[id].board, p)} :
                Len(validMoves) > 0 /\ B_aiMakeMoveCall(id, d, validMoves, p)

SpecAi == InitCommon /\ [][NextAi]_vars

(***************************************************************************)
(* part_001 matches of one client against the medium automated opponent    *)
(***************************************************************************)
MaxAiTimers == 3   \* makeAIMove calls pending in a match against the opponent

\* a game, the client's moves and the opponent's answers in turn, in which
\* the client takes the opponent's last disc with its fifth move; the
\* client makes every second move of its own while the second makeAIMove
\* call of its move before is still in its thinking delay
AiGames ==
   { << <<4,5>>, <<3,5>>, <<2,2>>, <<5,3>>, <<2,5>>, <<1,1>>, <<6,2>>, <<1,1>>, <<0,0>> >> }

\* the cell the client submits next: the next cell of the games of AiGames
\* that begin with the moves made so far
B_aiGameCells(id) ==
    LET cellsSoFar == [i \in 1..Len(rooms[id].moveHistory) |->
                         <<rooms[id].moveHistory[i].row, rooms[id].moveHistory[i].col>>]
    IN {g[Len(cellsSoFar) + 1] :
          g \in {h \in AiGames : /\ Len(cellsSoFar) < Len(h)
                                 /\ \A i \in 1..Len(cellsSoFar) : h[i] = cellsSoFar[i]}}

NextBAi ==
    \/ \E cl \in Solo : B_createRoom(cl[1], cl[2], "ai", "medium")
    \/ \E cl \in Solo, id \in RoomIds :
          /\ B_room(id)
          /\ \E x \in B_aiGameCells(id) : B_onMakeMoveWithin(cl[1], x[1], x[2], MaxAiTimers)
    \/ \E k \in 1..MaxAiTimers : B_makeAIMoveStart(k)
    \/ \E k \in 1..MaxAiTimers : B_makeAIMoveFinish(k)

SpecBAi == InitCommon /\ [][NextBAi]_vars

\* the same matches when every timer that is set fires and every call that
\* waits in ai.makeMove resumes; the client is free to send nothing
SpecBAiFair ==
    /\ InitCommon
    /\ [][NextBAi]_vars
    /\ WF_vars(\E k \in 1..MaxAiTimers : B_makeAIMoveStart(k))
    /\ WF_vars(\E k \in 1..MaxAiTimers : B_makeAIMoveFinish(k))

(***************************************************************************)
(* Rooms created while the registry holds rooms: server.js (first variant) *)
(* and part_001, one generation in the registry at a time                  *)
(***************************************************************************)
S_room(id) ==
    id \in DOMAIN rooms /\ "scores" \in DOMAIN rooms[id] /\ "spectators" \notin DOMAIN rooms[id]

NextCreate ==
    \/ \E cl \in Duel :
          /\ \A id \in DOMAIN rooms : S_room(id)
          /\ S_createRoom(cl[1], cl[2])
    \/ \E cl \in Duel, id \in RoomIds : S_room(id) /\ S_joinRoom(cl[1], id, cl[2])
    \/ \E cl \in Duel, id \in RoomIds : S_room(id) /\ S_onLeaveRoom(cl[1], id)
    \/ \E cl \in Duel :
          /\ \A id \in DOMAIN rooms : B_room(id)
          /\ B_createRoom(cl[1], cl[2], "online", "medium")
    \/ \E cl \in Duel, id \in RoomIds : B_room(id) /\ B_joinRoom(cl[1], id, cl[2])
    \/ \E cl \in Duel, id \in RoomIds, x \in OpeningCells :
          /\ B_room(id)
          /\ playersMap[cl[1]] = B_Info(id, cl[2])
          /\ B_onMakeMove(cl[1], x[1], x[2])

SpecCreate == InitCommon /\ [][NextCreate]_vars

(***************************************************************************)
(* T: src/server.js, second variant (lines 788-1221)                       *)
(***************************************************************************)
T_GameRoom(hostSocketId, hostPlayerName, t) ==
    [ host |-> [socketId |-> hostSocketId, name |-> hostPlayerName],
      players |-> << [socketId |-> hostSocketId, name |-> hostPlayerName,
                      connected |-> TRUE, isHost |-> TRUE] >>,
      spectators |-> << >>,
      gameState |-> << >>,
      lastActivity |-> t ]

T_room(id) == id \in DOMAIN rooms /\ "host" \in DOMAIN rooms[id]

T_addPlayer(rm, socketId, playerName, t) ==
    IF Len(rm.players) < 2
    THEN [rm EXCEPT !.players = Append(@, [socketId |-> socketId, name |-> playerName,
                                           connected |-> TRUE, isHost |-> FALSE]),
                    !.lastActivity = t]
    ELSE rm

T_addSpectator(rm, socketId, playerName, t) ==
    [rm EXCEPT !.spectators = Append(@, [socketId |-> socketId, name |-> playerName]),
               !.lastActivity = t]

T_removePlayerOrSpectator(rm, socketId, t) ==
    [rm EXCEPT !.players = [i \in 1..Len(@) |->
                              IF @[i].socketId = socketId
                              THEN [@[i] EXCEPT !.connected = FALSE] ELSE @[i]],
               !.spectators = SelectSeq(@, LAMBDA x : x.socketId # socketId),
               !.lastActivity = t]

T_Info(roomId, playerName, spectator) ==
    IF spectator
    THEN [roomId |-> roomId, playerName |-> playerName, isSpectator |-> TRUE]
    ELSE [roomId |-> roomId, playerName |-> playerName]

\* room.players.every(p => !p.connected) && room.spectators.length === 0
T_empty(rm) == IF EveryDisconnected(rm.players) /\ Len(rm.spectators) = 0 THEN "yes" ELSE "no"

\* the client names the room it creates
T_createRoom(s, roomId, playerName) ==
    /\ s \notin dead
    /\ UNCHANGED <<ledger, now, timers, dead>>
    /\ IF roomId \in DOMAIN rooms
       THEN reply' = Reply(s, "roomError") /\ UNCHANGED <<rooms, playersMap>>
       ELSE /\ rooms' = (roomId :> T_GameRoom(s, playerName, now)) @@ rooms
            /\ playersMap' = [playersMap EXCEPT ![s] = T_Info(roomId, playerName, FALSE)]
            /\ reply' = Reply(s, "roomCreated")

\* joinRoom as it would be if a lone host already filled the room
T_joinRoom_lone(s, roomId, playerName) ==
    /\ s \notin dead
    /\ UNCHANGED <<ledger, now, timers, dead>>
    /\ IF roomId \notin DOMAIN rooms
       THEN reply' = Reply(s, "roomError") /\ UNCHANGED <<rooms, playersMap>>
       ELSE IF Len(rooms[roomId].players) < 1
       THEN /\ rooms' = [rooms EXCEPT ![roomId] = T_addPlayer(@, s, playerName, now)]
            /\ playersMap' = [playersMap EXCEPT ![s] = T_Info(roomId, playerName, FALSE)]
            /\ reply' = NoReply
       ELSE /\ Len(rooms[roomId].spectators) < MaxSpectators
            /\ rooms' = [rooms EXCEPT ![roomId] = T_addSpectator(@, s, playerName, now)]
            /\ playersMap' = [playersMap EXCEPT ![s] = T_Info(roomId, playerName, TRUE)]
            /\ reply' = Reply(s, "joinedAsSpectator")

\* playerJoined goes to the room, joinedAsSpectator to the socket
T_joinRoom(s, roomId, playerName) ==
    /\ s \notin dead
    /\ UNCHANGED <<ledger, now, timers, dead>>
    /\ IF roomId \notin DOMAIN rooms
       THEN reply' = Reply(s, "roomError") /\ UNCHANGED <<rooms, playersMap>>
       ELSE IF Len(rooms[roomId].players) < 2
       THEN /\ rooms' = [rooms EXCEPT ![roomId] = T_addPlayer(@, s, playerName, now)]
            /\ playersMap' = [playersMap EXCEPT ![s] = T_Info(roomId, playerName, FALSE)]
            /\ reply' = NoReply
       ELSE /\ Len(rooms[roomId].spectators) < MaxSpectators
            /\ rooms' = [rooms EXCEPT ![roomId] = T_addSpectator(@, s, playerName, now)]
            /\ playersMap' = [playersMap EXCEPT ![s] = T_Info(roomId, playerName, TRUE)]
            /\ reply' = Reply(s, "joinedAsSpectator")

T_onLeaveRoom(s) ==
    /\ s \notin dead
    /\ HasInfo(s)
    /\ UNCHANGED <<ledger, now, reply, dead>>
    /\ LET roomId == playersMap[s].roomId
       IN IF roomId \notin DOMAIN rooms
          THEN UNCHANGED <<rooms, playersMap, timers>>
          ELSE \E left \in {T_removePlayerOrSpectator(rooms[roomId], s, now)} :
                  /\ rooms' = [rooms EXCEPT ![roomId] = left]
                  /\ playersMap' = [playersMap EXCEPT ![s] = NoInfo]
                  /\ timers' = IF T_empty(left) = "yes"
                               THEN Append(timers, [kind |-> "empty", roomId |-> roomId,
                                                    every |-> "live"])
                               ELSE timers
                  /\ Len(timers') <= MaxTimers

\* the callback leaveRoom schedules five seconds later
T_emptyTimer(k) ==
    /\ k \in 1..Len(timers)
    /\ timers[k].kind = "empty"
    /\ LET roomId == timers[k].roomId
           every == IF timers[k].every = "live" THEN T_empty(rooms[roomId])
                    ELSE timers[k].every
       IN IF every = "yes"
          THEN /\ rooms' = Without(rooms, roomId)
               /\ timers' = Orphan(RemoveAt(timers, k), roomId, "yes")
          ELSE /\ rooms' = rooms
               /\ timers' = RemoveAt(timers, k)
    /\ UNCHANGED <<playersMap, ledger, now, reply, dead>>

(***************************************************************************)
(* part_000 and the second variant of server.js: joining a full room       *)
(***************************************************************************)
\* the ids the clients of the second variant choose
TypedIds == {"T1"}

\* one program runs at a time: the registry holds rooms of one of the two
NextJoin ==
    \/ \E cl \in Clients :
          (\A id \in DOMAIN rooms : A_room(id)) /\ A_createRoom(cl[1], cl[2])
    \/ \E cl \in Clients, id \in RoomIds : A_joinRoom(cl[1], id, cl[2])
    \/ \E k \in 1..MaxTimers : A_startGameTimer(k)
    \/ \E cl \in Clients, id \in RoomIds, x \in OpeningCells :
          A_onMakeMove(cl[1], id, x[1], x[2])
    \/ \E cl \in Clients :
          HasInfo(cl[1]) /\ A_room(playersMap[cl[1]].roomId) /\ A_onLeaveRoom(cl[1])
    \/ \E k \in 1..MaxTimers : A_removeRoomTimer(k)
    \/ \E cl \in Clients, id \in TypedIds :
          (\A r \in DOMAIN rooms : T_room(r)) /\ T_createRoom(cl[1], id, cl[2])
    \/ \E cl \in Clients, id \in TypedIds : T_joinRoom(cl[1], id, cl[2])
    \/ \E cl \in Clients :
          HasInfo(cl[1]) /\ T_room(playersMap[cl[1]].roomId) /\ T_onLeaveRoom(cl[1])
    \/ \E k \in 1..MaxTimers : T_emptyTimer(k)

SpecJoin == InitCommon /\ [][NextJoin]_vars

(***************************************************************************)
(* part_000: rooms whose chat log is followed                              *)
(***************************************************************************)
MaxChatOver == 2

ChatOpen == \A id \in DOMAIN rooms : rooms[id].chatMessages < A_CHAT_LIMIT + MaxChatOver

NextChat ==
    \/ \E cl \in Duel : A_createRoomWith(cl[1], cl[2], TRUE)
    \/ \E cl \in Clients, id \in RoomIds : ChatOpen /\ A_joinRoom(cl[1], id, cl[2])
    \/ \E k \in 1..MaxTimers : ChatOpen /\ A_startGameTimer(k)
    \/ \E cl \in Clients, id \in RoomIds : ChatOpen /\ A_onChatMessage(cl[1], id)
    \/ \E cl \in Clients : ChatOpen /\ A_onLeaveRoom(cl[1])
    \/ \E k \in 1..MaxTimers : A_removeRoomTimer(k)

SpecChat == InitCommon /\ [][NextChat]_vars

(***************************************************************************)
(* Properties                                                              *)
(***************************************************************************)
Last(seq) == seq[Len(seq)]
Added == SubSeq(ledger', Len(ledger) + 1, Len(ledger'))
CountIn(seq, Test(_)) == Cardinality({i \in 1..Len(seq) : Test(seq[i])})
Kept(id) == id \in DOMAIN rooms /\ id \in DOMAIN rooms'
Placed(id) == Kept(id) /\ Len(rooms'[id].moveHistory) = Len(rooms[id].moveHistory) + 1

\* C1 (part_000, makeMove handler): after every accepted move by side M, N
\* being the other side and the legal moves being those of the resulting
\* board: the turn goes to N if N has a legal move, stays with M if only M
\* has one, and the match is over if neither has one.
C1_TurnAfterMove ==
    [][\A id \in RoomIds :
          Placed(id) =>
             IF A_getValidMoves(rooms'[id].board, Opp(rooms[id].currentPlayer)) # {}
             THEN rooms'[id].currentPlayer = Opp(rooms[id].currentPlayer)
             ELSE IF A_getValidMoves(rooms'[id].board, rooms[id].currentPlayer) # {}
             THEN rooms'[id].currentPlayer = rooms[id].currentPlayer
             ELSE rooms'[id].gameOver]_vars

\* C2 (part_001, makeMove -> switchPlayer -> checkGameOver -> endGame): a
\* move that ends the match reports the result to updatePlayerStats and to
\* updateLeaderboard exactly once for each human player of the room.
C2_ReportedOncePerHuman ==
    [][\A id \in RoomIds :
          (Placed(id) /\ ~rooms[id].gameOver /\ rooms'[id].gameOver) =>
             \A i \in 1..Len(rooms'[id].players) :
                ~rooms'[id].players[i].isAI =>
                   /\ CountIn(Added, LAMBDA c : c.fn = "updatePlayerStats"
                                 /\ c.name = rooms'[id].players[i].name) = 1
                   /\ CountIn(Added, LAMBDA c : c.fn = "updateLeaderboard"
                                 /\ c.name = rooms'[id].players[i].name) = 1]_vars

\* C3 (part_001, makeAIMove): in a room with an automated opponent every
\* disc of side 2 is placed while the match is not over and it is side 2's
\* turn, on a cell that is a legal move for side 2 on the board of that
\* moment, whatever the order of the two timers, the thinking delays, the
\* human moves and resetGame.
C3_AIPlacesOnItsTurn ==
    [][\A id \in RoomIds :
          (Placed(id) /\ rooms[id].ai # "none" /\ Last(rooms'[id].moveHistory).player = 2) =>
             /\ ~rooms[id].gameOver
             /\ rooms[id].currentPlayer = 2
             /\ B_isValidCell(rooms[id].board, Last(rooms'[id].moveHistory).row,
                              Last(rooms'[id].moveHistory).col, 2)]_vars

\* C4 (server.js, joinRoom -> startGame -> initializeBoard): when the second
\* player joins, the match is in progress afterwards: gameStarted is true,
\* gameOver is false, the board is the four-disc opening and side 1 is to
\* move (so that a legal move of side 1 is accepted next).
C4_SecondJoinStartsMatch ==
    [][\A id \in RoomIds :
          (Kept(id) /\ Len(rooms[id].players) = 1 /\ Len(rooms'[id].players) = 2) =>
             /\ rooms'[id].gameStarted
             /\ ~rooms'[id].gameOver
             /\ rooms'[id].board = [EmptyBoard EXCEPT ![3][3] = 1, ![3][4] = 2,
                                                      ![4][3] = 2, ![4][4] = 1]
             /\ rooms'[id].currentPlayer = 1]_vars

\* C5 (part_000): the roster of every room holds exactly one player of
\* colour 1 and at most one player of colour 2.
C5_OnePlayerPerColor ==
    \A id \in DOMAIN rooms :
       /\ CountIn(rooms[id].players, LAMBDA p : p.color = 1) = 1
       /\ CountIn(rooms[id].players, LAMBDA p : p.color = 2) <= 1

\* the frame C6 speaks of: board, turn, scores and the two match flags
SameMatch(id) ==
    /\ rooms'[id].board = rooms[id].board
    /\ rooms'[id].currentPlayer = rooms[id].currentPlayer
    /\ rooms'[id].scores = rooms[id].scores
    /\ rooms'[id].gameStarted = rooms[id].gameStarted
    /\ rooms'[id].gameOver = rooms[id].gameOver

IndexOfId(id, s) == FindIndex(rooms[id].players, LAMBDA p : p.id = s)
IndexOfName(id, n) == FindIndex(rooms[id].players, LAMBDA p : p.name = n)

\* a player of the room whose socket closes is only marked disconnected
DropOnlyMarks(s) ==
    (/\ HasInfo(s)
     /\ playersMap[s].roomId \in DOMAIN rooms
     /\ IndexOfId(playersMap[s].roomId, s) # 0
     /\ A_onDisconnect(s)) =>
        /\ SameMatch(playersMap[s].roomId)
        /\ rooms'[playersMap[s].roomId].players =
              [rooms[playersMap[s].roomId].players
                  EXCEPT ![IndexOfId(playersMap[s].roomId, s)].connected = FALSE]

\* C6 (part_000, reconnectAttempt): a disconnected player who reconnects
\* under the same name gets the old roster entry back, bound to the new
\* socket with the same colour and isHost; the roster does not grow; board,
\* turn, scores, gameStarted and gameOver are what they were before the
\* disconnect, which itself changed none of them.
C6_ReconnectKeepsSeat ==
    [][/\ \A cl \in Clients : DropOnlyMarks(cl[1])
       /\ \A cl \in Clients, id \in RoomIds :
             (/\ id \in DOMAIN rooms
              /\ IndexOfName(id, cl[2]) # 0
              /\ ~rooms[id].players[IndexOfName(id, cl[2])].connected
              /\ A_onReconnectAttempt(cl[1], id, cl[2])) =>
                 /\ SameMatch(id)
                 /\ rooms'[id].players =
                       [rooms[id].players EXCEPT ![IndexOfName(id, cl[2])].id = cl[1],
                                                 ![IndexOfName(id, cl[2])].connected = TRUE]]_vars

\* a match in progress whose host dropped and came back on a new socket
C6_Witness ==
    /\ "R1" \in DOMAIN rooms
    /\ rooms["R1"].gameStarted /\ ~rooms["R1"].gameOver
    /\ Len(rooms["R1"].moveHistory) = 1
    /\ rooms["R1"].players =
          << [id |-> "s3", name |-> "a", color |-> 1, connected |-> TRUE, isHost |-> TRUE],
             [id |-> "s2", name |-> "b", color |-> 2, connected |-> TRUE, isHost |-> FALSE] >>
    /\ "s1" \in dead
    /\ playersMap["s1"] = Info("R1", "a", TRUE, FALSE)
    /\ playersMap["s3"] = Info("R1", "a", TRUE, FALSE)

\* C7 (server.js, joinRoom / rejoinRoom): in a room of two players one of
\* whom is disconnected, a joinRoom or rejoinRoom of a new socket under the
\* disconnected player's name rebinds that entry (new id, connected, same
\* colour and isHost) and is answered with roomJoined.
C7_RejoinRebinds ==
    [][\A cl \in Clients, id \in RoomIds :
          (/\ id \in DOMAIN rooms
           /\ Len(rooms[id].players) = 2
           /\ IndexOfId(id, cl[1]) = 0
           /\ IndexOfName(id, cl[2]) # 0
           /\ ~rooms[id].players[IndexOfName(id, cl[2])].connected
           /\ (S_joinRoom(cl[1], id, cl[2]) \/ S_rejoinRoom(cl[1], id, cl[2]))) =>
              /\ Kept(id)
              /\ rooms'[id].players =
                    [rooms[id].players EXCEPT ![IndexOfName(id, cl[2])].id = cl[1],
                                              ![IndexOfName(id, cl[2])].connected = TRUE]
              /\ reply' = Reply(cl[1], "roomJoined")]_vars

\* C8 (part_000): while a room exists and its match is in progress and not
\* over, no step takes a disconnected player's entry out of the roster, and
\* a disconnect only marks the entry.
C8_DisconnectedEntryStays ==
    [][/\ \A cl \in Clients : DropOnlyMarks(cl[1])
       /\ \A id \in RoomIds :
             (Kept(id) /\ rooms[id].gameStarted /\ ~rooms[id].gameOver) =>
                \A i \in 1..Len(rooms[id].players) :
                   ~rooms[id].players[i].connected =>
                      \E j \in 1..Len(rooms'[id].players) :
                         /\ rooms'[id].players[j].name = rooms[id].players[i].name
                         /\ rooms'[id].players[j].color = rooms[id].players[i].color]_vars

Reports(name, result) ==
    /\ CountIn(Added, LAMBDA c : c.fn = "updateLeaderboardRating" /\ c.name = name) = 1
    /\ CountIn(Added, LAMBDA c : c.fn = "updatePlayerStats" /\ c.name = name) = 1
    /\ \A i \in 1..Len(Added) : Added[i].name = name => Added[i].result = result

\* one of the two connected players of a match in progress leaves
LeavesMidMatch(s) ==
    /\ HasInfo(s)
    /\ playersMap[s].roomId \in DOMAIN rooms
    /\ rooms[playersMap[s].roomId].gameStarted
    /\ ~rooms[playersMap[s].roomId].gameOver
    /\ Len(rooms[playersMap[s].roomId].players) = 2
    /\ ConnectedCount(rooms[playersMap[s].roomId].players) = 2
    /\ IndexOfId(playersMap[s].roomId, s) # 0
    /\ A_onLeaveRoom(s)

Forfeited(s) ==
    LET id == playersMap[s].roomId
        leaver == rooms[id].players[IndexOfId(id, s)]
        stays == rooms[id].players[3 - IndexOfId(id, s)]
    IN /\ Kept(id)
       /\ rooms'[id].gameOver
       /\ rooms'[id].winner = stays.color
       /\ Reports(stays.name, "win")
       /\ Reports(leaver.name, "loss")

\* C9 (part_000, leaveRoom): when one of two connected players leaves a
\* match in progress, the match is over, the winner is the colour of the
\* player who stays, the ledger gets one win report for that player and one
\* loss report for the leaver, and no leaveRoom or disconnect on the
\* finished match reports again.
C9_LeaveForfeitsOnce ==
    [][\A cl \in Clients :
          /\ LeavesMidMatch(cl[1]) => Forfeited(cl[1])
          /\ (/\ HasInfo(cl[1])
              /\ playersMap[cl[1]].roomId \in DOMAIN rooms
              /\ rooms[playersMap[cl[1]].roomId].gameOver
              /\ (A_onLeaveRoom(cl[1]) \/ A_onDisconnect(cl[1]))) => ledger' = ledger]_vars

\* a started match with one player connected and the other one dropped
Abandoned(id) ==
    /\ id \in DOMAIN rooms
    /\ rooms[id].gameStarted /\ ~rooms[id].gameOver
    /\ Len(rooms[id].players) = 2
    /\ ConnectedCount(rooms[id].players) = 1

\* C10 (part_000, disconnect and the periodic sweep): a match in progress
\* that a disconnect leaves with one connected player is eventually over,
\* won by the player who stayed, unless the other player comes back (or the
\* one who stayed goes as well).
C10_AbandonedMatchEnds ==
    \A id \in RoomIds, c \in {1, 2} :
       (Abandoned(id) /\ \E i \in {1, 2} : /\ rooms[id].players[i].connected
                                           /\ rooms[id].players[i].color = c)
          ~> \/ id \notin DOMAIN rooms
             \/ rooms[id].gameOver /\ rooms[id].winner = c
             \/ Len(rooms[id].players) = 2 /\ ConnectedCount(rooms[id].players) # 1

\* the side that placed the last disc of the room, after the step
Mover(id) == Last(rooms'[id].moveHistory).player

\* C11 (part_001, makeMove -> switchPlayer -> checkGameOver, two human
\* players): after every accepted move by side M, N being the other side and
\* the legal moves those of the resulting board: the turn goes to N if N has
\* a legal move; it stays with M and the match goes on if only M has one;
\* the match is over and the turn is unchanged if neither has one.
C11_TurnResolution ==
    [][\A id \in RoomIds :
          (Placed(id) /\ rooms[id].ai = "none") =>
             IF \E x \in Cells : B_isValidCell(rooms'[id].board, x[1], x[2], Opp(Mover(id)))
             THEN rooms'[id].currentPlayer = Opp(Mover(id))
             ELSE IF \E x \in Cells : B_isValidCell(rooms'[id].board, x[1], x[2], Mover(id))
             THEN rooms'[id].currentPlayer = Mover(id) /\ ~rooms'[id].gameOver
             ELSE /\ rooms'[id].gameOver
                  /\ rooms'[id].currentPlayer = rooms[id].currentPlayer]_vars

\* a match of two humans in which side 2 has just moved and side 1 must pass
C11_Witness ==
    /\ "R1" \in DOMAIN rooms
    /\ rooms["R1"].ai = "none"
    /\ Len(rooms["R1"].moveHistory) = 8
    /\ Last(rooms["R1"].moveHistory).player = 2
    /\ rooms["R1"].currentPlayer = 2
    /\ ~rooms["R1"].gameOver
    /\ ~\E x \in Cells : B_isValidCell(rooms["R1"].board, x[1], x[2], 1)

\* the rule of the game: from the empty cell (r, c), some ray holds a run of
\* one or more discs of the other side followed at once by a disc of side p
RunThenOwn(b, r, c, dr, dc, p) ==
    \E n \in 1..6 :
       /\ \A k \in 1..n : /\ OnBoard(r + k * dr, c + k * dc)
                          /\ b[r + k * dr][c + k * dc] = Opp(p)
       /\ OnBoard(r + (n + 1) * dr, c + (n + 1) * dc)
       /\ b[r + (n + 1) * dr][c + (n + 1) * dc] = p

Legal(b, r, c, p) ==
    /\ b[r][c] = 0
    /\ \E dr \in {-1, 0, 1}, dc \in {-1, 0, 1} :
          ~(dr = 0 /\ dc = 0) /\ RunThenOwn(b, r, c, dr, dc, p)

\* the sender of a submission holds the seat whose number is the turn
HoldsTurn(rm, s) ==
    \E i \in 1..Len(rm.players) :
       rm.players[i].id = s /\ rm.players[i].playerNumber = rm.currentPlayer

\* C12 (part_001, GameRoom.makeMove): a submission is rejected with
\* 'Game not active' when the match is not started or is over, otherwise
\* with 'Not your turn' when the sender does not hold the turn, otherwise
\* with 'Cell occupied' or 'Invalid move' when the cell is not a legal move
\* of the side to move; a rejected submission changes nothing of the room
\* (board, turn, history, gameOver, winner, lastActivity) nor the ledger.
C12_RejectedWithReason ==
    [][\A cl \in Duel, x \in MoveCells :
          (/\ HasInfo(cl[1])
           /\ playersMap[cl[1]].roomId \in DOMAIN rooms
           /\ B_onMakeMove(cl[1], x[1], x[2])) =>
              LET rm == rooms[playersMap[cl[1]].roomId]
              IN IF rm.gameOver \/ ~rm.gameStarted
                 THEN reply' = Reply(cl[1], "Game not active")
                      /\ rooms' = rooms /\ ledger' = ledger
                 ELSE IF ~HoldsTurn(rm, cl[1])
                 THEN reply' = Reply(cl[1], "Not your turn")
                      /\ rooms' = rooms /\ ledger' = ledger
                 ELSE IF ~Legal(rm.board, x[1], x[2], rm.currentPlayer)
                 THEN /\ reply' = Reply(cl[1], IF rm.board[x[1]][x[2]] # 0
                                               THEN "Cell occupied" ELSE "Invalid move")
                      /\ rooms' = rooms /\ ledger' = ledger
                 ELSE TRUE]_vars

\* C13 (getValidMoves / isValidMove of part_000, getValidMoves /
\* isValidDirection of part_001, calculateValidMoves / isValidMove of
\* server.js): the legal-move set of a side holds empty cells only, and holds
\* a cell exactly when one of its 8 rays has a run of one or more discs of
\* the other side followed at once by a disc of the side.
C13_LegalMovesExact ==
    reply.event = "validMoves" =>
       /\ \A x \in reply.moves : rooms["R1"].board[x[1]][x[2]] = 0
       /\ reply.moves = {x \in Cells : Legal(rooms["R1"].board, x[1], x[2], reply.player)}

\* part_001 has answered for a board on which a run of the other side
\* reaches the edge unclosed (no move there) and another run is closed
C13_Witness ==
    /\ reply.event = "validMoves" /\ reply.to = "part_001" /\ reply.player = 1
    /\ rooms["R1"].board[0][0] = 2 /\ rooms["R1"].board[0][1] = 0
    /\ rooms["R1"].board[0][2] = 2 /\ rooms["R1"].board[0][3] = 1
    /\ reply.moves = {<<0, 1>>}

\* C14 (part_000, GameRoom.makeMove): a successful move adds 1 + k discs to
\* the mover and takes k discs from the other side, k >= 1 being the number
\* of flippedPieces it returns, so the board gains one disc; a submission
\* that makeMove refuses ('Invalid move') changes no cell.
C14_DiscCounts ==
    [][\A id \in RoomIds :
          /\ Placed(id) =>
                LET k == Len(Last(rooms'[id].moveHistory).flippedPieces)
                IN /\ k >= 1
                   /\ CountOf(rooms'[id].board, Mover(id))
                         = CountOf(rooms[id].board, Mover(id)) + 1 + k
                   /\ CountOf(rooms'[id].board, Opp(Mover(id)))
                         = CountOf(rooms[id].board, Opp(Mover(id))) - k
                   /\ CountOf(rooms'[id].board, 0) = CountOf(rooms[id].board, 0) - 1
          /\ \A cl \in Duel, x \in MoveCells :
                (/\ id \in DOMAIN rooms
                 /\ ~Legal(rooms[id].board, x[1], x[2], rooms[id].currentPlayer)
                 /\ A_onMakeMove(cl[1], id, x[1], x[2])) =>
                    Kept(id) /\ rooms'[id].board = rooms[id].board]_vars

\* a move has just turned three discs of the other side
C14_Witness ==
    /\ "R1" \in DOMAIN rooms
    /\ Len(rooms["R1"].moveHistory) >= 1
    /\ Len(Last(rooms["R1"].moveHistory).flippedPieces) = 3
    /\ rooms["R1"].scores[1] + rooms["R1"].scores[2] = 4 + Len(rooms["R1"].moveHistory)

\* C15 (part_000, initializeBoard / getValidMoves / makeMove): on the board
\* of a room that has just been created the legal moves of side 1 are
\* (2,3), (3,2), (4,5) and (5,4), and the move (2,3) of side 1 on that board
\* turns the one disc at (3,3) and gives the scores 4 and 1.
C15_OpeningMoves ==
    [][\A id \in RoomIds :
          /\ (id \notin DOMAIN rooms /\ id \in DOMAIN rooms') =>
                A_getValidMoves(rooms'[id].board, 1) = {<<2,3>>, <<3,2>>, <<4,5>>, <<5,4>>}
          /\ (/\ Placed(id)
              /\ Len(rooms[id].moveHistory) = 0
              /\ Last(rooms'[id].moveHistory).r = 2
              /\ Last(rooms'[id].moveHistory).c = 3) =>
                /\ Mover(id) = 1
                /\ Last(rooms'[id].moveHistory).flippedPieces = << <<3, 3>> >>
                /\ rooms'[id].board = [rooms[id].board EXCEPT ![2][3] = 1, ![3][3] = 1]
                /\ rooms'[id].scores[1] = 4
                /\ rooms'[id].scores[2] = 1]_vars

\* side 1 has opened the match at (2,3)
C15_Witness ==
    /\ "R1" \in DOMAIN rooms
    /\ Len(rooms["R1"].moveHistory) = 1
    /\ rooms["R1"].moveHistory[1].r = 2 /\ rooms["R1"].moveHistory[1].c = 3
    /\ rooms["R1"].moveHistory[1].player = 1
    /\ rooms["R1"].currentPlayer = 2

\* C16 (part_001, endGame / getScores): when a match ends, the winner is
\* side 1 if side 1 has more discs on the final board, side 2 if side 2 has
\* more, and 0 (draw) if the two counts are equal.
C16_WinnerByCount ==
    [][\A id \in RoomIds :
          (B_room(id) /\ Kept(id) /\ ~rooms[id].gameOver /\ rooms'[id].gameOver) =>
             LET n1 == CountOf(rooms'[id].board, 1)
                 n2 == CountOf(rooms'[id].board, 2)
             IN /\ n1 > n2 => rooms'[id].winner = 1
                /\ n2 > n1 => rooms'[id].winner = 2
                /\ n1 = n2 => rooms'[id].winner = 0]_vars

\* a part_001 match has ended with 32 discs on each side and is a draw
C16_Witness ==
    /\ B_room("R1")
    /\ rooms["R1"].gameOver
    /\ CountOf(rooms["R1"].board, 1) = CountOf(rooms["R1"].board, 2)
    /\ rooms["R1"].winner = 0

\* C17 (part_000 checkGameEnd, part_001 checkGameOver): when the handling
\* of an accepted move that fills the last empty cell is complete, the room
\* is over.
C17_FullBoardIsOver ==
    [][\A id \in RoomIds :
          (Placed(id) /\ CountOf(rooms'[id].board, 0) = 0) => rooms'[id].gameOver]_vars

\* a part_000 room after the sixtieth move of a game
C17_Witness ==
    /\ A_room("R1")
    /\ Len(rooms["R1"].moveHistory) = 60
    /\ CountOf(rooms["R1"].board, 0) = 0
    /\ rooms["R1"].gameOver

\* the effect of restartGame on a room, asked by a socket registered as host
RestartedByHost(id) ==
    /\ \E s \in Sockets \ dead :
          HasInfo(s) /\ playersMap[s].isHost /\ playersMap[s].roomId = id
    /\ ~rooms'[id].gameOver
    /\ rooms'[id].winner = null
    /\ rooms'[id].board = A_initializeBoard
    /\ rooms'[id].moveHistory = << >>

C19_AiMoveFromList ==
    reply.event = "aiMove" =>
       \E i \in 1..Len(reply.validMoves) : reply.validMoves[i] = reply.move

\* the medium opponent was given a list without a corner and chose its
\* second cell, which takes more discs than the first
C19_Witness ==
    /\ reply.event = "aiMove" /\ reply.difficulty = "medium"
    /\ Len(reply.validMoves) >= 2
    /\ \A i \in 1..Len(reply.validMoves) : ~B_isCorner(reply.validMoves[i])
    /\ reply.move = reply.validMoves[2]
    /\ reply.move # reply.validMoves[1]

\* C20 (part_001, GameRoom.makeAIMove): every call of ai.makeMove made by
\* makeAIMove, pending during its thinking delay, holds a non-empty list
\* validMoves.
C20_NeverEmptyList ==
    \A k \in 1..Len(timers) :
       (timers[k].kind \in {"t500", "t1000"} /\ timers[k].pc = "thinking") =>
          Len(timers[k].moves) > 0

\* a call of ai.makeMove is pending with the legal moves of side 2
C20_Witness ==
    \E k \in 1..Len(timers) :
       /\ timers[k].kind \in {"t500", "t1000"} /\ timers[k].pc = "thinking"
       /\ timers[k].roomId \in DOMAIN rooms
       /\ rooms[timers[k].roomId].currentPlayer = 2
       /\ timers[k].moves = B_getValidMoves(rooms[timers[k].roomId].board, 2)
       /\ Len(timers[k].moves) > 0

\* the names of the roster entries of all rooms that are, or are not, automated
RosterNames(isAI) ==
    UNION {{rooms[id].players[i].name :
               i \in {j \in 1..Len(rooms[id].players) : rooms[id].players[j].isAI = isAI}} :
           id \in DOMAIN rooms}

FlippedBy(b, r, c, p) ==
    Len(B_flipPieces([b EXCEPT ![r][c] = p], r, c, p).flippedPieces)

Applied(b, r, c, p) == B_flipPieces([b EXCEPT ![r][c] = p], r, c, p).board

\* C23 (part_001, evaluateMobility / makeExpertMove): the mobility term of a
\* legal candidate is minus the number of legal moves of the other side on
\* the board that results from applying the candidate (disc placed, captured
\* runs flipped), and the hard opponent returns the first candidate whose
\* score is maximal.
C23_ExpertMobility ==
    (reply.event = "aiMove" /\ reply.difficulty = "hard") =>
       LET b == reply.board
           vm == reply.validMoves
           p == reply.player
           score(i) == B_expertScore(b, vm[i], p)
       IN /\ \A i \in 1..Len(vm) :
                Legal(b, vm[i].row, vm[i].col, p) =>
                   B_evaluateMobility(b, vm[i], p)
                      = -Len(B_getValidMoves(Applied(b, vm[i].row, vm[i].col, p), Opp(p)))
          /\ \E i \in 1..Len(vm) :
                /\ reply.move = vm[i]
                /\ \A j \in 1..Len(vm) : score(j) <= score(i)
                /\ \A j \in 1..(i - 1) : score(j) < score(i)

\* C24 (server.js first variant and part_001, createRoom / generateRoomId):
\* a createRoom step leaves every room of the registry in place and as it
\* was, whatever id generateRoomId returns.
C24_CreateKeepsRooms ==
    [][(\E cl \in Duel : \/ S_createRoom(cl[1], cl[2])
                          \/ B_createRoom(cl[1], cl[2], "online", "medium"))
          => \A id \in DOMAIN rooms : id \in DOMAIN rooms' /\ rooms'[id] = rooms[id]]_vars

\* C25 (part_001, the hourly cleanup and the disconnect callback): a room
\* leaves the registry only when every one of its players is disconnected.
C25_RemovedOnlyWhenAllGone ==
    [][\A id \in DOMAIN rooms :
          id \notin DOMAIN rooms' => EveryDisconnected(rooms[id].players)]_vars

\* whether socket s is an entry of room.spectators
Watches(s, room) == \E i \in 1..Len(room.spectators) : room.spectators[i].id = s

\* C27 (part_000, socket.on('makeMove')): a makeMove sent by the socket of a
\* spectator of the room is answered with a moveError and leaves the room's
\* board, scores, currentPlayer, moveHistory and gameOver as they were.
C27_SpectatorMoveRejected ==
    [][\A cl \in Clients, id \in DOMAIN rooms, x \in OpeningCells :
          Watches(cl[1], rooms[id]) /\ A_onMakeMove(cl[1], id, x[1], x[2])
             => /\ reply' = A_emit("moveError")
                /\ rooms'[id].board = rooms[id].board
                /\ rooms'[id].scores = rooms[id].scores
                /\ rooms'[id].currentPlayer = rooms[id].currentPlayer
                /\ rooms'[id].moveHistory = rooms[id].moveHistory
                /\ rooms'[id].gameOver = rooms[id].gameOver]_vars

\* C28 (part_000, addChatMessage and addSystemMessage): room.chatMessages never
\* holds more than 100 entries.
C28_ChatBounded ==
    \A id \in DOMAIN rooms :
       A_logged(rooms[id]) => rooms[id].chatMessages <= A_CHAT_LIMIT

\* whether a connected player of the room bears the name
NameTaken(room, playerName) ==
    \E i \in 1..Len(room.players) :
       room.players[i].name = playerName /\ room.players[i].connected

\* C29 (part_000, socket.on('joinRoom')): a join that names a room the
\* registry does not hold, or that bears the name of a connected player of
\* the room, is answered with a roomError to the requesting socket alone and
\* changes no room.
C29_JoinRejected ==
    [][\A cl \in Clients, id \in RoomIds :
          /\ A_joinRoom(cl[1], id, cl[2])
          /\ IF id \in DOMAIN rooms THEN NameTaken(rooms[id], cl[2]) ELSE TRUE
          => reply' = A_emit("roomError") /\ rooms' = rooms /\ playersMap' = playersMap]_vars

\* a full room of two connected players after a join was answered with a
\* roomError: the refusal came after the second player's roomJoined
C29_Witness ==
    /\ reply = A_emit("roomError")
    /\ \E id \in DOMAIN rooms :
          /\ A_logged(rooms[id])
          /\ Len(rooms[id].players) = 2
          /\ NameTaken(rooms[id], "a") /\ NameTaken(rooms[id], "b")
          /\ rooms[id].chatMessages > 0

\* the board and the turn of a room of either program (the second variant of
\* server.js keeps both in room.gameState)
BoardAndTurn(rm) ==
    IF "gameState" \in DOMAIN rm THEN rm.gameState
    ELSE <<rm.board, rm.currentPlayer>>

\* C26 (part_000 and second variant of server.js, socket.on('joinRoom')): a
\* room gets one more spectator only while its players hold two entries, and
\* the step leaves its players, its board and its turn as they were.
C26_SpectatorOnlyWhenFull ==
    [][\A id \in DOMAIN rooms \cap DOMAIN rooms' :
          Len(rooms'[id].spectators) > Len(rooms[id].spectators)
             => /\ Len(rooms[id].players) = 2
                /\ rooms'[id].players = rooms[id].players
                /\ BoardAndTurn(rooms'[id]) = BoardAndTurn(rooms[id])]_vars

\* a room of part_000 with two players, a move played and a spectator
C26_Witness ==
    \E id \in DOMAIN rooms :
       /\ A_room(id)
       /\ Len(rooms[id].players) = 2
       /\ Len(rooms[id].spectators) = 1
       /\ Len(rooms[id].moveHistory) > 0

\* the automated side of the room is to move in a match that is not over
AiTurn(id) ==
    /\ B_room(id)
    /\ rooms[id].ai # "none"
    /\ rooms[id].gameStarted
    /\ ~rooms[id].gameOver
    /\ rooms[id].currentPlayer = 2

\* a timer of makeMove is set for the room, or a makeAIMove call of the room
\* waits in ai.makeMove
AiCallPending(id) ==
    \E k \in 1..Len(timers) :
       timers[k].roomId = id /\ timers[k].kind \in {"t500", "t1000"}

\* C30 (part_001, makeAIMove, switchPlayer and the timers of makeMove): while
\* the automated side is to move in a match that is not over, a move of the
\* automated side is eventually applied or the match ends.  Side 1 is refused
\* meanwhile and only makeAIMove moves for side 2, so the property requires
\* that a makeAIMove call is set or waiting whenever side 2 is to move: where
\* none is, the fair behaviour in which the client waits never gets the move.
C30_AiMovePending ==
    \A id \in DOMAIN rooms : AiTurn(id) => AiCallPending(id)

\* the makeMove handler accepted a move in the room: the history grew
MoveAccepted(id) ==
    /\ id \in DOMAIN rooms /\ id \in DOMAIN rooms'
    /\ Len(rooms'[id].moveHistory) = Len(rooms[id].moveHistory) + 1

\* C31 (part_000, makeMove handler and getGameState): the snapshot sent in
\* boardUpdate for an accepted move shows the state the handler leaves the
\* room in: the side to move after the turn is resolved, and gameOver and
\* winner as set if the move ended the match.
C31_BoardUpdateResolved ==
    [][\A cl \in Duel, id \in RoomIds, x \in MoveCells :
          A_onMakeMove(cl[1], id, x[1], x[2]) /\ MoveAccepted(id)
             => LET gameState == A_boardUpdate(rooms[id], x[1], x[2], now).gameState
                IN /\ gameState.board = rooms'[id].board
                   /\ gameState.currentPlayer = rooms'[id].currentPlayer
                   /\ gameState.gameOver = rooms'[id].gameOver
                   /\ gameState.winner = rooms'[id].winner]_vars

\* the last entry of the history of the room
LastMove(rm) == rm.moveHistory[Len(rm.moveHistory)]

\* C32 (part_001, makeMove handler): the player field of the moveMade event
\* sent for an accepted move is the side that placed the disc, also when the
\* opponent has to pass and when the move ends the match.
C32_MoveMadeNamesMover ==
    [][\A cl \in Duel, x \in MoveCells :
          /\ B_onMakeMove(cl[1], x[1], x[2])
          /\ HasInfo(cl[1])
          /\ MoveAccepted(playersMap[cl[1]].roomId)
          => B_moveMade(rooms'[playersMap[cl[1]].roomId], x[1], x[2]).player
                = LastMove(rooms'[playersMap[cl[1]].roomId]).player]_vars

\* the corners the cell touches
CornersNextTo(row, col) ==
    {x \in {0, 7} \X {0, 7} :
        Abs(row - x[1]) <= 1 /\ Abs(col - x[2]) <= 1 /\ <<row, col>> # x}

\* C33 (part_001, AIPlayer.makeExpertMove): the hard opponent charges the
\* corner penalty to a candidate only when a corner the candidate touches is
\* empty on the board it is asked about.
C33_PenaltyNearEmptyCorner ==
    (reply.event = "aiMove" /\ reply.difficulty = "hard")
       => \A i \in 1..Len(reply.validMoves) :
             B_cornerPenalty(reply.validMoves[i].row, reply.validMoves[i].col) # 0
                => \E x \in CornersNextTo(reply.validMoves[i].row, reply.validMoves[i].col) :
                      reply.board[x[1]][x[2]] = 0

\* the flips of a move evaluated ray by ray on the board as it was before
\* the move, all made afterwards (flipPieces of part_001 works this way)
OnSnapshot(b, r, c, player) ==
    B_flipPieces([b EXCEPT ![r][c] = player], r, c, player)

\* the rays of the move along which discs are flipped
FlippingRays(b, r, c, player) ==
    {i \in 1..8 : Len(B_piecesToFlip(b, r + B_directions[i][1], c + B_directions[i][2],
                                     B_directions[i][1], B_directions[i][2],
                                     player, << >>)) > 0}

\* C34 (part_000 GameRoom.makeMove, server.js GameRoom.applyMove): flipping
\* in place ray by ray gives, for every legal move, the board and the
\* flipped discs that evaluating all 8 rays on the board before the move
\* and flipping afterwards gives.
C34_InPlaceFlipsAsSnapshot ==
    reply.event = "flipped"
       => LET snap == OnSnapshot(reply.before, reply.r, reply.c, reply.player)
              cells == {snap.flippedPieces[i] : i \in 1..Len(snap.flippedPieces)}
          IN /\ reply.board = snap.board
             /\ reply.count = Cardinality(cells)
             /\ reply.to = "part_000" => reply.flipped = cells

\* both implementations were given a move that flips along several rays
C34_Witness ==
    /\ reply.event = "flipped"
    /\ reply.to = "server.js"
    /\ Cardinality(FlippingRays(reply.before, reply.r, reply.c, reply.player)) >= 3

\* the entries of the history that put a disc on the cell or turn its disc
Touching(history, r, c) ==
    {k \in 1..Len(history) :
        \/ history[k].r = r /\ history[k].c = c
        \/ \E i \in 1..Len(history[k].flippedPieces) :
              history[k].flippedPieces[i] = <<r, c>>}

\* the board after the first n moves of the history are made from the
\* opening position: a cell shows the side of the last move that touched it
Replayed(history, n) ==
    [r \in 0..7 |-> [c \in 0..7 |->
        LET ks == {k \in Touching(history, r, c) : k <= n}
        IN IF ks = {} THEN A_initializeBoard[r][c]
           ELSE history[CHOOSE k \in ks : \A j \in ks : j <= k].player]]

\* every move of the history is made on an empty cell and turns the discs
\* the rays from its cell turn on the board of the moves before it
ReplayByTheRules(history) ==
    \A k \in 1..Len(history) :
       LET before == Replayed(history, k - 1)
           turned == OnSnapshot(before, history[k].r, history[k].c,
                                history[k].player).flippedPieces
       IN /\ before[history[k].r][history[k].c] = 0
          /\ Len(turned) > 0
          /\ {history[k].flippedPieces[i] : i \in 1..Len(history[k].flippedPieces)}
                = {turned[i] : i \in 1..Len(turned)}

\* C35 (part_000, makeMove, updateScores and the restartGame handler): in
\* every state of a room the board holds 4 + moveHistory.length discs, the
\* scores are the numbers of cells of side 1 and of side 2, and the moves of
\* moveHistory made from the opening position give the board.
C35_BoardIsHistory ==
    \A id \in DOMAIN rooms :
       A_room(id) =>
          /\ CountOf(rooms[id].board, 1) + CountOf(rooms[id].board, 2)
                = 4 + Len(rooms[id].moveHistory)
          /\ rooms[id].scores[1] = CountOf(rooms[id].board, 1)
          /\ rooms[id].scores[2] = CountOf(rooms[id].board, 2)
          /\ ReplayByTheRules(rooms[id].moveHistory)
          /\ Replayed(rooms[id].moveHistory, Len(rooms[id].moveHistory)) = rooms[id].board

\* a match that was started again, two moves into the new match, after a
\* result of the match before went to the ledger
C35_Witness ==
    /\ "R1" \in DOMAIN rooms /\ A_room("R1")
    /\ Len(ledger) > 0
    /\ rooms["R1"].gameStarted /\ ~rooms["R1"].gameOver
    /\ Len(rooms["R1"].moveHistory) = 2

\* a grace timer of the room set after the k-th timer is still pending: its
\* disconnect was that of a player who had come back after the k-th timer
\* was set, that is, within the minute before the k-th timer fires
LaterGrace(k) ==
    \E j \in (k + 1)..Len(timers) :
       /\ timers[j].kind = "grace"
       /\ timers[j].roomId = timers[k].roomId
       /\ timers[j].every = "live"

\* C36 (server.js, first variant, the grace timer of the disconnect
\* handler): the timer deletes a room only if no player of the room was
\* connected during the minute before; a player who came back and dropped
\* again gives the room a whole new minute.
C36_GraceFromLastDisconnect ==
    [][\A k \in 1..Len(timers) :
          /\ S_graceTimer(k)
          /\ timers[k].every = "live"
          /\ S_room(timers[k].roomId)
          /\ timers[k].roomId \notin DOMAIN rooms'
          => ~LaterGrace(k)]_vars

\* C37 (part_000, joinRoom, reconnectAttempt, leaveRoom, disconnect): no
\* socket id is that of a connected player of a room and of a spectator of
\* the same room, and no socket id is listed twice among the spectators.
C37_PlayerOrSpectator ==
    \A id \in DOMAIN rooms :
       A_room(id) =>
          /\ \A i \in 1..Len(rooms[id].players), j \in 1..Len(rooms[id].spectators) :
                rooms[id].players[i].connected
                   => rooms[id].players[i].id # rooms[id].spectators[j].id
          /\ \A j \in 1..Len(rooms[id].spectators), k \in 1..Len(rooms[id].spectators) :
                j # k => rooms[id].spectators[j].id # rooms[id].spectators[k].id

\* C38 (part_000, the duplicate-name test of joinRoom and addPlayer): no two
\* entries of the players of a room have the same display name.
C38_DistinctNames ==
    \A id \in DOMAIN rooms :
       A_room(id) =>
          \A i \in 1..Len(rooms[id].players), j \in 1..Len(rooms[id].players) :
             i # j => rooms[id].players[i].name # rooms[id].players[j].name

\* the user of s1 has come back on the socket s3 under the same name, into a
\* room that holds another player
C38_Witness ==
    /\ "R1" \in DOMAIN rooms /\ A_room("R1")
    /\ Len(rooms["R1"].players) = 2
    /\ \E i \in 1..2 : /\ rooms["R1"].players[i].id = "s3"
                        /\ rooms["R1"].players[i].name = "a"
                        /\ rooms["R1"].players[i].connected
    /\ playersMap["s3"] # NoInfo

====
